---- MODULE Spec2Model ----
(***************************************************************************)
(* A model of stackpack: the pipeline engine (algorithms/pipeline.rs), the *)
(* mutators it chains (algorithms/mtf.rs, algorithms/imgdecode.rs, the     *)
(* sample plugin) and the stand-alone run-length coder (algorithms/rle.rs),*)
(* the registry and the plugin table (registered.rs, plugins.rs), the two  *)
(* readers of a pipeline description (cli/pipeline.rs and try_from_bytes), *)
(* the BWT and arithmetic-coding mutators (algorithms/bwt.rs,             *)
(* algorithms/arcode.rs), the block decoder (algorithms/bsc.rs), the two   *)
(* later run-length coders (algorithms/rle2.rs, algorithms/rle3.rs), the   *)
(* threads that take the registry's and the plugin table's mutexes, and    *)
(* the output buffer's way through a plugin call (sample_plugin's lib.rs). *)
(*                                                                         *)
(* Byte buffers (&[u8], Vec<u8>) are sequences of naturals below 256.      *)
(* A call of a mutator function fn(data, buf) -> Result<()> is an operator *)
(* from the input and the buffer's contents on entry to a record           *)
(*   [ok, buf, err, panic]                                                 *)
(* holding the Result, the buffer's contents on return, the error value    *)
(* and whether the call aborted the process (todo!()).                     *)
(***************************************************************************)
EXTENDS Integers, Sequences, FiniteSets, TLC

VARIABLES
    \* ---- one run of CompressionPipeline::{drive,revert}_mutation ----
    pipeline,      \* CompressionPipeline.pipeline: the stages, in order
    dir,           \* which method runs: "drive" or "revert"
    data,          \* the caller's input slice
    buf,           \* the caller-provided output buffer
    intermediate,  \* the scratch Vec of the n >= 2 branch
    pc,            \* position in the method: "idle", "loop", "done"
    executed,      \* number of stages invoked so far in this run
    cur,           \* the buffer ref1 refers to: "buf" or "intermediate"
    res,           \* the method's return: "none", "ok", "err", "panic"
    err,           \* the error value returned when res = "err"
    calls,         \* history: one record per stage invocation of this run
    swapped,       \* history: the final mem::swap(buf, intermediate) ran
    entry,         \* history: buf's contents when the first run was entered
    original,      \* history: the input of the first run
    phase,         \* 1: first run; 2: the revert run fed with the drive output
    \* ---- one application of a stand-alone transform and its inverse ----
    t_x,           \* the input byte sequence
    t_entry,       \* the output buffer's contents on entry
    t_enc,         \* the result of the forward call
    t_dec,         \* the result of the inverse call on the forward output
    t_pc,          \* "init", "encoded", "decoded"
    \* ---- the registry and the plugin table (registered.rs, plugins.rs) ----
    plugins_root,     \* STACKPACK_PLUGINS_ROOT: "unset" or "set"
    plugins_dir,      \* the files of <root>/plugins, in the order WalkDir yields
    ALL_COMPRESSORS,  \* the registry: a Vec of RegisteredCompressor
    LOADED_PLUGINS,   \* the plugin table: a Vec of Plugin
    loads,            \* number of load_plugins calls made so far
    held,             \* the entry a caller last got from the registry by name
    access,           \* outcome of the last FFI call's table access
    \* ---- one pipeline description and what the two parsers make of it ----
    d_names,          \* history: the names the description was written from
    d_text,           \* the inline text description (a string)
    d_bytes,          \* the binary description (a byte stream)
    r_text,           \* what build_pipeline returned for d_text
    r_bin,            \* what try_from_bytes returned for d_bytes
    driven,           \* the pipeline a command handed to drive_mutation, if any
    \* ---- one call of bsc_decode, loop iteration by loop iteration ----
    b_input,          \* history: the slice the call was given
    b_data,           \* `data`: the part of the slice not yet consumed
    remaining_size,   \* the i64 counter of the same name
    b_output,         \* `output`: the caller's buffer
    b_pc,             \* "off", "entry", "loop", "done"
    b_res,            \* the Result returned: [ok, err]; Pending before the return
    b_frames,         \* history: one record per frame the loop got through
    \* ---- one call on a RegisteredCompressor, as each build compiles it ----
    rc_kind,          \* the mutator the entry wraps
    rc_op,            \* the method called: "drive" or "revert"
    rc_data,          \* `data`
    rc_buf,           \* `buf` on entry
    rc_traced,        \* what the call returns when if_tracing! is compiled in
    rc_plain,         \* what the call returns when if_not_tracing! is compiled in
    \* ---- one call of rle3::encode, loop iteration by loop iteration ----
    e_build,          \* overflow checks: "debug" (on) or "release" (off)
    e_input,          \* `input`
    e_i,              \* `i`
    e_output,         \* `output`
    e_literal,        \* `literal_buf`
    e_pc,             \* "off", "loop", "done", "panic"
    e_evals,          \* history: the (chunk_len, count) pairs for which the
                      \* latest detect_best_run evaluated `saving`
    e_run,            \* history: the run the latest detect_best_run returned
    \* ---- threads calling into plugins.rs and the two mutexes ----
    th_pc,            \* per thread: where it stands in the function it runs
    th_arg,           \* per thread: the directory position (load_plugins) or
                      \* the plugin_index (FfiMutator) it works on
    registry_mutex,   \* owner of ALL_COMPRESSORS' mutex, or Unlocked
    plugins_mutex,    \* owner of LOADED_PLUGINS' mutex, or Unlocked
    \* ---- one output buffer handed to a plugin and back ----
    f_pc,             \* where the call of FfiMutator::drive_mutation stands
    f_plugin,         \* the mutation behind the plugin's exported wrapper
    f_data,           \* the stage's input bytes
    f_buf,            \* the host's Vec: [ptr, len, cap]
    f_triple,         \* the host's locals ptr, len, cap (the out parameters)
    f_vec,            \* the plugin's Vec: [ptr, len, cap]
    f_heap,           \* the allocations ever made: [state, bytes]
    f_inner,          \* the result of the plugin's mutation
    f_result,         \* the wrapper's return value / the method's Result
    f_faults,         \* history: memory errors that have happened
    f_calls           \* number of calls made

pipeVars == <<pipeline, dir, data, buf, intermediate, pc, executed, cur, res, err,
              calls, swapped, entry, original, phase>>
codecVars == <<t_x, t_entry, t_enc, t_dec, t_pc>>
regVars == <<plugins_root, plugins_dir, ALL_COMPRESSORS, LOADED_PLUGINS, loads,
             held, access>>
parseVars == <<d_names, d_text, d_bytes, r_text, r_bin, driven>>
bscVars == <<b_input, b_data, remaining_size, b_output, b_pc, b_res, b_frames>>
traceVars == <<rc_kind, rc_op, rc_data, rc_buf, rc_traced, rc_plain>>
ffiVars == <<f_pc, f_plugin, f_data, f_buf, f_triple, f_vec, f_heap, f_inner,
             f_result, f_faults, f_calls>>
lockVars == <<th_pc, th_arg, registry_mutex, plugins_mutex>>
rle3Vars == <<e_build, e_input, e_i, e_output, e_literal, e_pc, e_evals, e_run>>
restVars == <<bscVars, traceVars, rle3Vars, lockVars, ffiVars>>
vars == <<pipeVars, codecVars, regVars, parseVars, restVars>>

\* Option<T>
None == [some |-> FALSE]
Some(v) == [some |-> TRUE, value |-> v]

\* The registry variables while a specification does not use them.
RegIdle ==
    /\ plugins_root = "unset"
    /\ plugins_dir = <<>>
    /\ ALL_COMPRESSORS = <<>>
    /\ LOADED_PLUGINS = <<>>
    /\ loads = 0
    /\ held = None
    /\ access = "none"

\* no construction attempted yet
Unset == [tag |-> "unset", pipeline |-> <<>>]

\* The description variables while a specification does not use them.
ParseIdle ==
    /\ d_names = <<>>
    /\ d_text = <<>>
    /\ d_bytes = <<>>
    /\ r_text = Unset
    /\ r_bin = Unset
    /\ driven = None

\* no Result yet: the call has not returned
Pending == [ok |-> FALSE, err |-> "pending"]

\* The bsc_decode variables while a specification does not use them.
BscIdle ==
    /\ b_input = <<>>
    /\ b_data = <<>>
    /\ remaining_size = 0
    /\ b_output = <<>>
    /\ b_pc = "off"
    /\ b_res = Pending
    /\ b_frames = <<>>

\* The RegisteredCompressor variables while a specification does not use them.
TraceIdle ==
    /\ rc_kind = "mtf"
    /\ rc_op = "drive"
    /\ rc_data = <<>>
    /\ rc_buf = <<>>
    /\ rc_traced = None
    /\ rc_plain = None

\* most threads that call into plugins.rs at once
MaxThreads == 2
Threads == 1..MaxThreads

\* a parking_lot::Mutex nobody holds
Unlocked == 0

\* The threads and mutexes while a specification does not use them.
LockIdle ==
    /\ th_pc = [t \in Threads |-> "idle"]
    /\ th_arg = [t \in Threads |-> 0]
    /\ registry_mutex = Unlocked
    /\ plugins_mutex = Unlocked

\* the pointer of a Vec that has no allocation (capacity 0)
Dangling == 0

\* The buffer hand-off variables while a specification does not use them.
FfiIdle ==
    /\ f_pc = "unused"
    /\ f_plugin = "none"
    /\ f_data = <<>>
    /\ f_buf = [ptr |-> Dangling, len |-> 0, cap |-> 0]
    /\ f_triple = [ptr |-> Dangling, len |-> 0, cap |-> 0]
    /\ f_vec = [ptr |-> Dangling, len |-> 0, cap |-> 0]
    /\ f_heap = <<>>
    /\ f_inner = "none"
    /\ f_result = "none"
    /\ f_faults = {}
    /\ f_calls = 0

\* The rle3::encode variables while a specification does not use them.
Rle3Idle ==
    /\ e_build = "debug"
    /\ e_input = <<>>
    /\ e_i = 0
    /\ e_output = <<>>
    /\ e_literal = <<>>
    /\ e_pc = "off"
    /\ e_evals = <<>>
    /\ e_run = None

\* The variables of the later sections while a specification does not use them.
RestIdle ==
    /\ BscIdle
    /\ TraceIdle
    /\ Rle3Idle
    /\ LockIdle
    /\ FfiIdle

\* ------------------------------------------------------------------ bounds

\* longest pipeline the model runs
MaxStages == 4
\* longest input handed to a pipeline
MaxDataLen == 2
\* longest input handed to a stand-alone MTF call
MaxMtfLen == 4
\* longest input handed to the run-length coder
MaxRleLen == 6

\* ------------------------------------------------------------------ bytes

\* [u8; 256] / iota![u8; 256]: the table size of mtf.rs
AlphabetSize == 256

RECURSIVE SeqsUpTo(_, _)
\* all sequences over S of length at most n
SeqsUpTo(S, n) ==
    IF n = 0 THEN {<<>>}
    ELSE LET shorter == SeqsUpTo(S, n - 1)
         IN  shorter \cup {Append(s, b) : s \in {t \in shorter : Len(t) = n - 1}, b \in S}

\* Result<()> of a mutator call together with the buffer it leaves behind
Ok(b) == [ok |-> TRUE, buf |-> b, err |-> "", panic |-> FALSE]
Err(b, msg) == [ok |-> FALSE, buf |-> b, err |-> msg, panic |-> FALSE]
Panic(b) == [ok |-> FALSE, buf |-> b, err |-> "panic", panic |-> TRUE]

\* ------------------------------------------------------------------ mtf.rs

\* iota![u8; 256]: buf[i] = i
iota == [k \in 0..(AlphabetSize - 1) |-> k]

\* alphabet.copy_within(0..idx, 1); alphabet[0] = byte
MoveToFront(alphabet, idx, byte) ==
    [j \in 0..(AlphabetSize - 1) |->
        IF j = 0 THEN byte
        ELSE IF j <= idx THEN alphabet[j - 1]
        ELSE alphabet[j]]

\* mutant of PosLoop: the inverse table is not rewritten
PosLoopSkipped(pos, alphabet, idx) == pos

\* for i in 1..=idx { let v = alphabet[i]; pos[v] = i; }: each pos[v] ends as the
\* last i written to it, or stays as it was
PosLoop(pos, alphabet, idx) ==
    [v \in 0..(AlphabetSize - 1) |->
        LET written == {k \in 1..idx : alphabet[k] = v}
        IN  IF written = {} THEN pos[v]
            ELSE CHOOSE k \in written : \A m \in written : m <= k]

\* the body of mtf_encode's loop for one input byte b
MtfEncodeStep(st, b) ==
    LET idx == st.pos[b]
        out == Append(st.out, idx)
    IN  IF idx = 0
        THEN [st EXCEPT !.out = out]
        ELSE LET byte == st.alphabet[idx]
                 alphabet == MoveToFront(st.alphabet, idx, byte)
                 pos == [PosLoop(st.pos, alphabet, idx) EXCEPT ![byte] = 0]
             IN  [alphabet |-> alphabet, pos |-> pos, out |-> out]

RECURSIVE MtfEncodeLoop(_, _, _)
\* for b in data.iter().copied() { ... }
MtfEncodeLoop(st, d, k) ==
    IF k > Len(d) THEN st
    ELSE MtfEncodeLoop(MtfEncodeStep(st, d[k]), d, k + 1)

\* mtf_encode: an empty input returns before buf.clear()
mtf_encode(d, b) ==
    IF d = <<>> THEN Ok(b)
    ELSE Ok(MtfEncodeLoop([alphabet |-> iota, pos |-> iota, out |-> <<>>], d, 1).out)

\* a decoder that emits the symbol but leaves the table as it is
MtfDecodeStepNoMove(st, idx) == [st EXCEPT !.out = Append(st.out, st.alphabet[idx])]

\* the body of mtf_decode's loop for one index idx
MtfDecodeStep(st, idx) ==
    LET symbol == st.alphabet[idx]
        out == Append(st.out, symbol)
    IN  IF idx = 0
        THEN [st EXCEPT !.out = out]
        ELSE [alphabet |-> MoveToFront(st.alphabet, idx, symbol), out |-> out]

RECURSIVE MtfDecodeLoop(_, _, _)
\* for idx in encoded.iter().copied() { ... }
MtfDecodeLoop(st, d, k) ==
    IF k > Len(d) THEN st
    ELSE MtfDecodeLoop(MtfDecodeStep(st, d[k]), d, k + 1)

\* mtf_decode: both paths clear buf first
mtf_decode(encoded, b) ==
    IF encoded = <<>> THEN Ok(<<>>)
    ELSE Ok(MtfDecodeLoop([alphabet |-> iota, out |-> <<>>], encoded, 1).out)

\* ----------------------------------------------------- sample_plugin/lib.rs

\* byte ^ 0b00000001
Xor1(byte) == IF byte % 2 = 0 THEN byte + 1 ELSE byte - 1

\* drive_mutation of the sample plugin "wololooo": clear, then push byte ^ 1
plugin_drive_mutation(d, b) == Ok([k \in 1..Len(d) |-> Xor1(d[k])])

\* revert_mutation of the sample plugin: the same transform
plugin_revert_mutation(d, b) == Ok([k \in 1..Len(d) |-> Xor1(d[k])])

\* ------------------------------------------------------------ imgdecode.rs

\* img_encode: always Err, buf untouched
img_encode(d, b) == Err(b, "image decoder cannot be used to encode images yet")

\* img_decode: Err on an empty input, todo!() otherwise
img_decode(d, b) == IF d = <<>> THEN Err(b, "data was empty") ELSE Panic(b)

\* ------------------------------------------------------------------ rle.rs

\* cmp::min(255, ..): the longest pattern / literal run of one chunk
MaxChunkLen == 255
\* `repeats < 256`: the most repetitions of one chunk
MaxRepeats == 256
\* `as u8`
ByteRange == 256

Min(a, b) == IF a < b THEN a ELSE b

\* &data[a..b] with 0-based offsets
Slice(d, a, b) == SubSeq(d, a + 1, b)

\* pos + pattern_len <= data.len() && &data[pos..pos + pattern_len] == pattern
Matches(d, pattern, pattern_len, pos) ==
    /\ pos + pattern_len <= Len(d)
    /\ Slice(d, pos, pos + pattern_len) = pattern

\* a repetition count whose cap is off by one (repeats <= 256)
CountRepeatsPastCap(d, start, pattern_len) ==
    LET pattern == Slice(d, start, start + pattern_len)
        tries == 1..Min(MaxRepeats + 1, (Len(d) - start) \div pattern_len)
        stops == {j \in tries :
                     ~(/\ Matches(d, pattern, pattern_len, start + j * pattern_len)
                       /\ j <= MaxRepeats)}
    IN  CHOOSE j \in stops : \A m \in stops : j <= m

\* let mut repeats = 1; let mut pos = start + pattern_len;
\* while <Matches> && repeats < 256 { repeats += 1; pos += pattern_len; }
\* The j-th test of the loop sees repeats = j and pos = start + j * pattern_len, so
\* the loop ends with the least j whose test fails; no j beyond the copies that fit
\* into the data needs to be tried.
CountRepeats(d, start, pattern_len) ==
    LET pattern == Slice(d, start, start + pattern_len)
        tries == 1..Min(MaxRepeats, (Len(d) - start) \div pattern_len)
        stops == {j \in tries :
                     ~(/\ Matches(d, pattern, pattern_len, start + j * pattern_len)
                       /\ j < MaxRepeats)}
    IN  CHOOSE j \in stops : \A m \in stops : j <= m

\* one iteration of `for pattern_len in 1..=min(255, data.len() - start)`;
\* the f32 efficiency raw_size / encoded_size is kept as the fraction num / den
PatternStep(d, start, pattern_len, best) ==
    LET repeats == CountRepeats(d, start, pattern_len)
        raw_size == pattern_len * repeats
        encoded_size == 2 + pattern_len
    IN  IF repeats > 1 /\ raw_size * best.den > best.num * encoded_size
        THEN [pattern_len |-> pattern_len, repeats |-> repeats,
              num |-> raw_size, den |-> encoded_size]
        ELSE best

RECURSIVE PatternLoop(_, _, _, _, _)
\* for pattern_len in first..=last, in order. The range is halved to keep the
\* evaluation shallow; the iterations still run first, first + 1, ..., last, and
\* the test on half (den is never 0) only makes the first half run first.
PatternLoop(d, start, first, last, best) ==
    IF first > last THEN best
    ELSE IF first = last THEN PatternStep(d, start, first, best)
    ELSE LET mid == (first + last) \div 2
             half == PatternLoop(d, start, first, mid, best)
         IN  IF half.den > 0 THEN PatternLoop(d, start, mid + 1, last, half) ELSE half

\* mutant of PatternWins: a pattern that only breaks even is taken
PatternWinsOnTie(best) == best.num >= best.den

\* if best_efficiency > 1.0
PatternWins(best) == best.num > best.den

\* Rle::find_optimal_chunk: the chunk at `start` and how far it advances
find_optimal_chunk(d, start) ==
    LET max_non_rep == Min(MaxChunkLen, Len(d) - start)
        best == PatternLoop(d, start, 1, Min(MaxChunkLen, Len(d) - start),
                            [pattern_len |-> 0, repeats |-> 0, num |-> 0, den |-> 1])
    IN  IF PatternWins(best)
        THEN [string_length |-> best.pattern_len % ByteRange,
              repetitions_minus_one |-> (best.repeats - 1) % ByteRange,
              string |-> Slice(d, start, start + best.pattern_len),
              advance |-> best.pattern_len * best.repeats]
        ELSE [string_length |-> max_non_rep % ByteRange,
              repetitions_minus_one |-> 0,
              string |-> Slice(d, start, start + max_non_rep),
              advance |-> max_non_rep]

RECURSIVE chunkfinder(_, _)
\* Rle::chunkfinder from position pos: while pos < data.len() { ... }
chunkfinder(d, pos) ==
    IF pos < Len(d)
    THEN LET c == find_optimal_chunk(d, pos)
         IN  <<c>> \o chunkfinder(d, pos + c.advance)
    ELSE <<>>

RECURSIVE WriteChunks(_, _)
\* vec1.push(string_length); vec1.push(repetitions_minus_one); vec1.extend(string)
WriteChunks(chunks, k) ==
    IF k > Len(chunks) THEN <<>>
    ELSE <<chunks[k].string_length, chunks[k].repetitions_minus_one>>
         \o chunks[k].string \o WriteChunks(chunks, k + 1)

\* Rle::rle_encode
rle_encode(d) == WriteChunks(chunkfinder(d, 0), 1)

RECURSIVE dechunker(_, _)
\* dechunker: read_rle_chunk until the cursor reaches the end; a read_exact past
\* the end is an io error
dechunker(d, pos) ==
    IF pos >= Len(d) THEN [ok |-> TRUE, chunks |-> <<>>]
    ELSE IF pos + 2 > Len(d) \/ pos + 2 + d[pos + 1] > Len(d)
    THEN [ok |-> FALSE, chunks |-> <<>>]
    ELSE LET rest == dechunker(d, pos + 2 + d[pos + 1])
             chunk == [string_length |-> d[pos + 1],
                       repetitions_minus_one |-> d[pos + 2],
                       string |-> Slice(d, pos + 2, pos + 2 + d[pos + 1])]
         IN  [ok |-> rest.ok, chunks |-> <<chunk>> \o rest.chunks]

\* for _ in 0..=repetitions_minus_one { vec1.extend(&chunk.string) } with n = R + 1
Repeat(string, n) ==
    [k \in 1..(n * Len(string)) |-> string[((k - 1) % Len(string)) + 1]]

RECURSIVE ReadChunks(_, _)
ReadChunks(chunks, k) ==
    IF k > Len(chunks) THEN <<>>
    ELSE Repeat(chunks[k].string, chunks[k].repetitions_minus_one + 1)
         \o ReadChunks(chunks, k + 1)

\* Rle::rle_decode
rle_decode(d) ==
    IF d = <<>> THEN Ok(<<>>)
    ELSE LET read == dechunker(d, 0)
         IN  IF ~read.ok THEN Err(<<>>, "Failed to read RLE chunk")
             ELSE Ok(ReadChunks(read.chunks, 1))

\* ---------------------------------------------------- stages of a pipeline

\* the mutators the model puts into a pipeline
Kinds == {"mtf", "wololooo", "img_decode"}

\* FfiMutator::drive_mutation: the plugin's bool becomes Ok or Err
ffi_drive_mutation(d, b) ==
    LET r == plugin_drive_mutation(d, b)
    IN  IF r.ok THEN Ok(r.buf) ELSE Err(r.buf, "plugin drive mutation failed")

\* FfiMutator::revert_mutation
ffi_revert_mutation(d, b) ==
    LET r == plugin_revert_mutation(d, b)
    IN  IF r.ok THEN Ok(r.buf) ELSE Err(r.buf, "plugin revert mutation failed")

\* self.pipeline[i].drive_mutation(data, buf): the stage's forward function
drive_mutation(kind, d, b) ==
    CASE kind = "mtf" -> mtf_encode(d, b)
      [] kind = "wololooo" -> ffi_drive_mutation(d, b)
      [] kind = "img_decode" -> img_encode(d, b)

\* self.pipeline[i].revert_mutation(data, buf): the stage's inverse function
revert_mutation(kind, d, b) ==
    CASE kind = "mtf" -> mtf_decode(d, b)
      [] kind = "wololooo" -> ffi_revert_mutation(d, b)
      [] kind = "img_decode" -> img_decode(d, b)

\* the call a run of direction d makes on a stage
Invoke(d, kind, input, b) ==
    IF d = "drive" THEN drive_mutation(kind, input, b) ELSE revert_mutation(kind, input, b)

\* ------------------------------------------------------------- pipeline.rs

\* bytes the model feeds to a pipeline
PipeBytes == {1, 2}
\* what the caller's output buffer may hold on entry (Vec::new() or stale bytes)
EntryBufs == {<<>>, <<7>>}

\* the contents of the buffer a reference names
Deref(name) ==
    CASE name = "data" -> data
      [] name = "buf" -> buf
      [] name = "intermediate" -> intermediate

\* mem::swap(&mut ref1, &mut ref2): the other buffer of the pair
OtherRef(name) == IF name = "buf" THEN "intermediate" ELSE "buf"

\* a revert that walks the stages front to back
StageIndexForward(d, k, n) == k

\* the 0-based index of the k-th stage a run invokes (k = 0, 1, ...):
\* iter_mut().skip(1) for drive, pipeline[n - 1] then iter_mut().rev().skip(1) for revert
StageIndex(d, k, n) == IF d = "drive" THEN k ELSE n - 1 - k

\* a run that ignores the stage's Result
ContinuesAlways(r) == TRUE

\* `res?`: TRUE when the run goes on, FALSE when it returns the stage's error
Continues(r) == r.ok

\* a parity test off by one
SwapNeededOdd(n) == n % 2 = 1

\* `if n % 2 == 0`: the result was last written to intermediate
SwapNeeded(n) == n % 2 = 0

\* the error a run returns for a failed stage: `res?` passes the stage's error on
\* as it is, no context is attached
StageError(r, stage) == [msg |-> r.err, context |-> <<>>]

\* the history record of one stage invocation
CallRecord(stage, src, dst, r) ==
    [stage |-> stage, src |-> src, dst |-> dst, input |-> Deref(src),
     out |-> r.buf, ok |-> r.ok, panic |-> r.panic]

\* the return of a run whose stage call r did not continue
Returned(r) == IF r.panic THEN "panic" ELSE "err"

\* match self.pipeline.len() { 0 => Ok(()), 1 => pipeline[0].op(data, buf),
\* n => { intermediate = vec![]; first stage from data into buf; res?; ... } }
Start(d) ==
    /\ pc = "idle"
    /\ LET n == Len(pipeline)
           stage == StageIndex(d, 0, n)
       IN  IF n = 0
           THEN /\ pc' = "done"
                /\ res' = "ok"
                /\ UNCHANGED <<buf, intermediate, executed, cur, err, calls>>
           ELSE LET r == Invoke(d, pipeline[stage + 1], data, buf)
                IN  /\ buf' = r.buf
                    /\ calls' = Append(calls, CallRecord(stage, "data", "buf", r))
                    /\ executed' = 1
                    /\ intermediate' = <<>>
                    /\ IF n = 1
                       THEN /\ pc' = "done"
                            /\ res' = IF r.ok THEN "ok" ELSE Returned(r)
                            /\ err' = IF r.ok \/ r.panic THEN err ELSE StageError(r, stage)
                            /\ UNCHANGED cur
                       ELSE IF ~r.panic /\ Continues(r)
                       THEN /\ pc' = "loop"
                            /\ cur' = "buf"
                            /\ UNCHANGED <<res, err>>
                       ELSE /\ pc' = "done"
                            /\ res' = Returned(r)
                            /\ err' = IF r.panic THEN err ELSE StageError(r, stage)
                            /\ UNCHANGED cur
    /\ UNCHANGED <<pipeline, dir, data, swapped, entry, original, phase, codecVars, regVars, parseVars, restVars>>

\* one iteration of `for algo in ... .skip(1)`: algo.op(ref1, ref2); res?;
\* mem::swap(&mut ref1, &mut ref2)
Stage(d) ==
    /\ pc = "loop"
    /\ executed < Len(pipeline)
    /\ LET n == Len(pipeline)
           stage == StageIndex(d, executed, n)
           dst == OtherRef(cur)
           r == Invoke(d, pipeline[stage + 1], Deref(cur), Deref(dst))
       IN  /\ buf' = IF dst = "buf" THEN r.buf ELSE buf
           /\ intermediate' = IF dst = "intermediate" THEN r.buf ELSE intermediate
           /\ calls' = Append(calls, CallRecord(stage, cur, dst, r))
           /\ executed' = executed + 1
           /\ IF ~r.panic /\ Continues(r)
              THEN /\ cur' = dst
                   /\ UNCHANGED <<pc, res, err>>
              ELSE /\ pc' = "done"
                   /\ res' = Returned(r)
                   /\ err' = IF r.panic THEN err ELSE StageError(r, stage)
                   /\ UNCHANGED cur
    /\ UNCHANGED <<pipeline, dir, data, swapped, entry, original, phase, codecVars, regVars, parseVars, restVars>>

\* after the loop: if n % 2 == 0 { mem::swap(buf, &mut intermediate) }; Ok(())
Finish ==
    /\ pc = "loop"
    /\ executed = Len(pipeline)
    /\ IF SwapNeeded(Len(pipeline))
       THEN /\ buf' = intermediate
            /\ intermediate' = buf
            /\ swapped' = TRUE
       ELSE UNCHANGED <<buf, intermediate, swapped>>
    /\ pc' = "done"
    /\ res' = "ok"
    /\ UNCHANGED <<pipeline, dir, data, executed, cur, err, calls, entry, original,
                   phase, codecVars, regVars, parseVars, restVars>>

\* CompressionPipeline::drive_mutation
DriveStart ==
    /\ dir = "drive"
    /\ Start("drive")
DriveStage ==
    /\ dir = "drive"
    /\ Stage("drive")
DriveFinish ==
    /\ dir = "drive"
    /\ Finish

\* CompressionPipeline::revert_mutation
RevertStart ==
    /\ dir = "revert"
    /\ Start("revert")
RevertStage ==
    /\ dir = "revert"
    /\ Stage("revert")
RevertFinish ==
    /\ dir = "revert"
    /\ Finish

\* run_folder: the drive output is handed to revert_mutation with a new Vec
\* (the model follows the runs whose drive returned Ok)
BeginRevert ==
    /\ pc = "done"
    /\ dir = "drive"
    /\ phase = 1
    /\ res = "ok"
    /\ phase' = 2
    /\ dir' = "revert"
    /\ data' = buf
    /\ buf' = <<>>
    /\ intermediate' = <<>>
    /\ pc' = "idle"
    /\ executed' = 0
    /\ cur' = "buf"
    /\ res' = "none"
    /\ calls' = <<>>
    /\ swapped' = FALSE
    /\ UNCHANGED <<pipeline, err, entry, original, codecVars, regVars, parseVars, restVars>>

NoError == [msg |-> "", context |-> <<>>]

CodecIdle ==
    /\ t_x = <<>>
    /\ t_entry = <<>>
    /\ t_enc = Ok(<<>>)
    /\ t_dec = Ok(<<>>)
    /\ t_pc = "off"

InitPipe ==
    /\ pipeline \in SeqsUpTo(Kinds, MaxStages)
    /\ dir \in {"drive", "revert"}
    /\ data \in SeqsUpTo(PipeBytes, MaxDataLen)
    /\ buf \in EntryBufs
    /\ entry = buf
    /\ original = data
    /\ intermediate = <<>>
    /\ pc = "idle"
    /\ executed = 0
    /\ cur = "buf"
    /\ res = "none"
    /\ err = NoError
    /\ calls = <<>>
    /\ swapped = FALSE
    /\ phase = 1
    /\ CodecIdle
    /\ RegIdle
    /\ ParseIdle
    /\ RestIdle

NextPipe ==
    \/ DriveStart
    \/ DriveStage
    \/ DriveFinish
    \/ RevertStart
    \/ RevertStage
    \/ RevertFinish
    \/ BeginRevert

SpecPipe == InitPipe /\ [][NextPipe]_vars

\* ------------------------------------------------------- pipeline properties

\* the mutators of Kinds whose revert undoes their drive
RoundTripKinds == {"mtf", "wololooo"}

Done == pc = "done"
LastCall == calls[Len(calls)]

\* C1: composition round-trip: for a pipeline of round-tripping mutators, drive
\* followed by revert on the produced output succeeds and leaves the first input
\* in the caller's output buffer (checked for callers that pass empty buffers).
C1_CompositionRoundTrip ==
    (/\ Done
     /\ phase = 2
     /\ entry = <<>>
     /\ \A k \in 1..Len(pipeline) : pipeline[k] \in RoundTripKinds)
    => (res = "ok" /\ buf = original)

\* C2: identity empty pipeline: with no stage, a run leaves the input in the
\* caller's output buffer (checked for callers that pass an empty buffer).
C2_IdentityEmptyPipeline ==
    (Done /\ Len(pipeline) = 0 /\ entry = <<>>) => (res = "ok" /\ buf = data)

\* C3: parity correctness: after a successful run the caller's buffer, not the
\* scratch buffer, holds what the last invoked stage wrote, and the final swap ran
\* exactly when the stage count is even and at least 2.
C3_ParityCorrectness ==
    (Done /\ res = "ok") =>
        /\ swapped <=> (Len(pipeline) % 2 = 0 /\ Len(pipeline) >= 2)
        /\ calls # <<>> =>
              /\ buf = LastCall.out
              /\ swapped <=> (LastCall.dst = "intermediate")

C3_Witness ==
    /\ Done /\ res = "ok" /\ dir = "revert"
    /\ Len(pipeline) = 4
    /\ swapped
    /\ buf # intermediate
    /\ buf = LastCall.out

\* C4: stage ordering and chaining: drive invokes stages 0, 1, ..., revert invokes
\* stages n-1, n-2, ..., each once; the first invoked stage reads the caller's
\* input and every later one reads the buffer the previous one wrote and writes
\* the other buffer of the pair.
C4_StageOrdering ==
    /\ \A j \in 1..Len(calls) :
          /\ calls[j].stage = IF dir = "drive" THEN j - 1 ELSE Len(pipeline) - j
          /\ IF j = 1
             THEN calls[j].src = "data" /\ calls[j].input = data /\ calls[j].dst = "buf"
             ELSE /\ calls[j].src = calls[j - 1].dst
                  /\ calls[j].input = calls[j - 1].out
                  /\ calls[j].dst # calls[j].src
                  /\ calls[j].dst \in {"buf", "intermediate"}
    /\ (Done /\ res = "ok") => Len(calls) = Len(pipeline)

C4_Witness ==
    /\ Done /\ res = "ok" /\ dir = "revert"
    /\ pipeline = <<"mtf", "wololooo", "mtf">>
    /\ Len(calls) = 3
    /\ calls[2].input # calls[3].input

\* C5: fail-fast: once a stage has returned a failure the run has returned a
\* failure, and that stage is the last one invoked.
C5_FailFast ==
    \A j \in 1..Len(calls) :
        (~calls[j].ok /\ ~calls[j].panic) =>
            (j = Len(calls) /\ Done /\ res = "err")

C5_Witness ==
    /\ Done /\ res = "err" /\ dir = "drive"
    /\ Len(pipeline) = 4
    /\ Len(calls) = 2
    /\ ~LastCall.ok

\* C6: failure isolation: the error a failed run returns names the index of the
\* stage that failed.
C6_ErrorNamesStage ==
    (Done /\ res = "err") =>
        \E m \in 1..Len(err.context) : err.context[m] = LastCall.stage

\* C7: partial output is discarded: when a stage after the first fails in a
\* pipeline of two or more stages, the caller's buffer (empty on entry) does not
\* hold bytes an earlier stage wrote into it.
C7_PartialOutputDiscarded ==
    (Done /\ res = "err" /\ entry = <<>> /\ Len(pipeline) >= 2 /\ Len(calls) >= 2) =>
        \A j \in 1..(Len(calls) - 1) :
            ~(calls[j].dst = "buf" /\ calls[j].out = buf /\ buf # <<>>)

\* ------------------------------------------------- stand-alone transforms

PipeIdle ==
    /\ pipeline = <<>>
    /\ dir = "drive"
    /\ data = <<>>
    /\ buf = <<>>
    /\ intermediate = <<>>
    /\ pc = "off"
    /\ executed = 0
    /\ cur = "buf"
    /\ res = "none"
    /\ err = NoError
    /\ calls = <<>>
    /\ swapped = FALSE
    /\ entry = <<>>
    /\ original = <<>>
    /\ phase = 1

\* bytes the model feeds to mtf_encode ('a' = 97)
MtfBytes == {0, 1, 97}

InitMtf ==
    /\ t_x \in SeqsUpTo(MtfBytes, MaxMtfLen)
    /\ t_entry \in EntryBufs
    /\ t_enc = Ok(<<>>)
    /\ t_dec = Ok(<<>>)
    /\ t_pc = "init"
    /\ PipeIdle
    /\ RegIdle
    /\ ParseIdle
    /\ RestIdle

\* mtf_encode(x, buf) on a buffer holding t_entry
MtfEncode ==
    /\ t_pc = "init"
    /\ t_enc' = mtf_encode(t_x, t_entry)
    /\ t_pc' = "encoded"
    /\ UNCHANGED <<t_x, t_entry, t_dec, pipeVars, regVars, parseVars, restVars>>

\* mtf_decode(encoded, buf) on a buffer holding t_entry
MtfDecode ==
    /\ t_pc = "encoded"
    /\ t_enc.ok
    /\ t_dec' = mtf_decode(t_enc.buf, t_entry)
    /\ t_pc' = "decoded"
    /\ UNCHANGED <<t_x, t_entry, t_enc, pipeVars, regVars, parseVars, restVars>>

NextMtf ==
    \/ MtfEncode
    \/ MtfDecode

SpecMtf == InitMtf /\ [][NextMtf]_vars

\* bytes the model feeds to the run-length coder ('A', 'B')
RleBytes == {65, 66}

\* b"ABABABABAB"
ABABABABAB == [k \in 1..10 |-> 65 + ((k - 1) % 2)]

\* inputs that reach the limits of one chunk: runs of one byte around 256
\* repetitions, and 256 distinct bytes (a literal run longer than 255)
LongInputs ==
    {[k \in 1..n |-> 65] : n \in {256, 257, 258}} \cup {[k \in 1..256 |-> k - 1]}
      \cup {ABABABABAB}

InitRle ==
    /\ t_x \in SeqsUpTo(RleBytes, MaxRleLen) \cup LongInputs
    /\ t_entry = <<>>
    /\ t_enc = Ok(<<>>)
    /\ t_dec = Ok(<<>>)
    /\ t_pc = "init"
    /\ PipeIdle
    /\ RegIdle
    /\ ParseIdle
    /\ RestIdle

\* Compressor::compress_bytes for Rle
RleEncode ==
    /\ t_pc = "init"
    /\ t_enc' = Ok(rle_encode(t_x))
    /\ t_pc' = "encoded"
    /\ UNCHANGED <<t_x, t_entry, t_dec, pipeVars, regVars, parseVars, restVars>>

\* Compressor::decompress_bytes for Rle, on the compressed bytes
RleDecode ==
    /\ t_pc = "encoded"
    /\ t_dec' = rle_decode(t_enc.buf)
    /\ t_pc' = "decoded"
    /\ UNCHANGED <<t_x, t_entry, t_enc, pipeVars, regVars, parseVars, restVars>>

NextRle ==
    \/ RleEncode
    \/ RleDecode

SpecRle == InitRle /\ [][NextRle]_vars

\* ------------------------------------------------------ transform properties


\* the tables of mtf_encode after the first k bytes of t_x
MtfTablesAfter(k) ==
    MtfEncodeLoop([alphabet |-> iota, pos |-> iota, out |-> <<>>],
                  SubSeq(t_x, 1, k), 1)

\* alphabet is a permutation of the byte values and pos is its inverse
InverseTables(st) ==
    /\ {st.alphabet[i] : i \in 0..(AlphabetSize - 1)} = 0..(AlphabetSize - 1)
    /\ \A i \in 0..(AlphabetSize - 1) : st.pos[st.alphabet[i]] = i

RECURSIVE TablesHoldFrom(_, _)
\* the tables st reached before byte k of t_x, and those after each later
\* byte, are inverse to each other, and byte k's index in the output is its
\* position in st.alphabet
TablesHoldFrom(st, k) ==
    /\ InverseTables(st)
    /\ k <= Len(t_x) =>
          /\ st.alphabet[t_enc.buf[k]] = t_x[k]
          /\ TablesHoldFrom(MtfEncodeStep(st, t_x[k]), k + 1)

\* C27: MTF table invariant: after each input byte of mtf_encode, alphabet is a
\* permutation of the 256 byte values and pos is its inverse
\* (pos[alphabet[i]] = i), so the index emitted for a byte is the byte's
\* position in the move-to-front list at that moment.
C27_MtfTableInvariant ==
    (t_pc = "encoded" /\ t_x # <<>>) =>
        /\ t_enc.ok
        /\ Len(t_enc.buf) = Len(t_x)
        /\ TablesHoldFrom([alphabet |-> iota, pos |-> iota, out |-> <<>>], 1)

C27_Witness ==
    /\ t_pc = "encoded"
    /\ Len(t_x) = MaxMtfLen
    /\ t_enc.buf[MaxMtfLen] > 1
    /\ MtfTablesAfter(MaxMtfLen).alphabet # MtfTablesAfter(MaxMtfLen - 1).alphabet
    /\ MtfTablesAfter(MaxMtfLen).pos[0] = 2

\* C8: idempotent clearing: a successful mutator call leaves the output it would
\* leave in an empty buffer, whatever the buffer held on entry (here: mtf_encode).
C8_IdempotentClearing ==
    (t_pc \in {"encoded", "decoded"} /\ t_enc.ok) =>
        t_enc.buf = mtf_encode(t_x, <<>>).buf

\* C9: MTF round-trip: with output buffers empty on entry, mtf_decode of
\* mtf_encode(x) succeeds and yields x; b"aaaa" encodes to [97, 0, 0, 0].
C9_MtfRoundTrip ==
    (t_pc = "decoded" /\ t_entry = <<>>) =>
        /\ t_enc.ok /\ t_dec.ok
        /\ t_dec.buf = t_x
        /\ t_x = <<97, 97, 97, 97>> => t_enc.buf = <<97, 0, 0, 0>>

C9_Witness ==
    /\ t_pc = "decoded" /\ t_entry = <<>>
    /\ t_x = <<97, 0, 97, 1>>
    /\ t_enc.buf = <<97, 1, 1, 2>>
    /\ t_dec.buf = t_x

\* C10: RLE round-trip: rle_decode of rle_encode(x) succeeds and yields x.
C10_RleRoundTrip ==
    t_pc = "decoded" => (t_dec.ok /\ t_dec.buf = t_x)

C10_Witness ==
    /\ t_pc = "decoded"
    /\ Len(t_x) = 258
    /\ t_enc.buf = <<1, 255, 65, 2, 0, 65, 65>>
    /\ t_dec.ok /\ t_dec.buf = t_x

\* ------------------------------- the registry and the plugin loader
\* (registered.rs, plugins.rs).  A &str is the sequence of its characters.

Str_arcode == <<"a", "r", "c", "o", "d", "e">>
Str_bwt == <<"b", "w", "t">>
Str_mtf == <<"m", "t", "f">>
Str_bsc == <<"b", "s", "c">>
Str_re_pair == <<"r", "e", "_", "p", "a", "i", "r">>
Str_wololooo == <<"w", "o", "l", "o", "l", "o", "o", "o">>
Str_half == <<"h", "a", "l", "f">>

\* RegisteredCompressor::new_dyn: a built-in, its two functions named by `fns`
new_dyn(fns, name) == [mutator |-> [tag |-> "Dyn", fns |-> fns], name |-> name]

\* FfiMutator { plugin_index }
FfiMutator(index) == [tag |-> "Ffi", plugin_index |-> index]

\* RegisteredCompressor::new_ffi
new_ffi(mutator, name) == [mutator |-> mutator, name |-> name]

\* the initial value of ALL_COMPRESSORS
Builtins ==
    << new_dyn("arcode", Str_arcode), new_dyn("bwt", Str_bwt),
       new_dyn("mtf", Str_mtf), new_dyn("bsc", Str_bsc),
       new_dyn("re_pair", Str_re_pair) >>

\* the four symbols from_library asks the library for
RequiredExports ==
    {"STACKPACK_PLUGIN_SHORT_NAME", "STACKPACK_PLUGIN_DESCRIPTION",
     "stackpack_plugin_drive_mutation", "stackpack_plugin_revert_mutation"}

\* the extensions load_plugins takes for a shared library
LibraryExts == {"dll", "so", "dylib"}

\* A file of the plugins directory: its extension, whether the dynamic loader
\* accepts it, the symbols it exports and the string its name symbol holds.
SamplePlugin ==
    [ext |-> "so", loadable |-> TRUE, exports |-> RequiredExports,
     short_name |-> Str_wololooo]
MtfNamedPlugin ==
    [ext |-> "dll", loadable |-> TRUE, exports |-> RequiredExports,
     short_name |-> Str_mtf]
NoRevertLibrary ==
    [ext |-> "so", loadable |-> TRUE,
     exports |-> RequiredExports \ {"stackpack_plugin_revert_mutation"},
     short_name |-> Str_half]
NoExportsLibrary ==
    [ext |-> "dylib", loadable |-> TRUE, exports |-> {}, short_name |-> <<>>]
CorruptLibrary ==
    [ext |-> "so", loadable |-> FALSE, exports |-> {}, short_name |-> <<>>]
TextFile ==
    [ext |-> "txt", loadable |-> FALSE, exports |-> {}, short_name |-> <<>>]
Candidates ==
    {SamplePlugin, MtfNamedPlugin, NoRevertLibrary, NoExportsLibrary,
     CorruptLibrary, TextFile}

\* mutant of from_library: takes whatever the library has
from_library_unchecked(lib) ==
    [ok |-> TRUE, err |-> "", api |-> [short_name |-> lib.short_name]]

\* StackpackPluginAPI::from_library
from_library(lib) ==
    IF "STACKPACK_PLUGIN_SHORT_NAME" \notin lib.exports
    THEN [ok |-> FALSE, err |-> "MissingName", api |-> [short_name |-> <<>>]]
    ELSE IF "STACKPACK_PLUGIN_DESCRIPTION" \notin lib.exports
    THEN [ok |-> FALSE, err |-> "MissingDescription", api |-> [short_name |-> <<>>]]
    ELSE IF "stackpack_plugin_drive_mutation" \notin lib.exports
    THEN [ok |-> FALSE, err |-> "MissingDriveMutation", api |-> [short_name |-> <<>>]]
    ELSE IF "stackpack_plugin_revert_mutation" \notin lib.exports
    THEN [ok |-> FALSE, err |-> "MissingRevertMutation", api |-> [short_name |-> <<>>]]
    ELSE [ok |-> TRUE, err |-> "", api |-> [short_name |-> lib.short_name]]

\* Plugin::new; the path of a file is its position in the directory
Plugin(loaded_from, api) == [loaded_from |-> loaded_from, api |-> api]

\* load_plugins, body of the directory loop for the file at position i
ScanEntry(table, files, i) ==
    LET file == files[i]
        api == from_library(file)
    IN IF file.ext \notin LibraryExts THEN table
       ELSE IF ~file.loadable THEN table
       ELSE IF ~api.ok THEN table
       ELSE Append(table, Plugin(i, api.api))

\* load_plugins, the directory loop from position i on
RECURSIVE ScanLoop(_, _, _)
ScanLoop(table, files, i) ==
    IF i > Len(files) THEN table
    ELSE ScanLoop(ScanEntry(table, files, i), files, i + 1)

\* load_plugins, the registration loop: one push per record of the table
RegisterLoop(registry, table) ==
    registry \o [k \in 1..Len(table) |->
                    new_ffi(FfiMutator(k - 1), table[k].api.short_name)]

\* load_plugins
load_plugins(root, files, table, registry) ==
    IF root = "unset"
    THEN [table |-> table, registry |-> registry]
    ELSE LET scanned == ScanLoop(table, files, 1)
         IN [table |-> scanned, registry |-> RegisterLoop(registry, scanned)]

\* get_specific_compressor_from_name: the first entry with that name
get_specific_compressor_from_name(registry, s) ==
    LET hits == {k \in 1..Len(registry) : registry[k].name = s}
    IN IF hits = {} THEN None
       ELSE Some(registry[CHOOSE k \in hits : \A j \in hits : k <= j])

\* FfiMutator::{drive,revert}_mutation: LOADED_PLUGINS.lock()[self.plugin_index]
TableAccess(table, mutator) ==
    IF mutator.tag = "Dyn" THEN "dyn"
    ELSE IF mutator.plugin_index < Len(table) THEN "ok"
    ELSE "out of bounds"

\* --------------------------------------- the registry as a state machine

\* most files in the plugins directory
MaxDirEntries == 2
\* most calls of load_plugins in one process
MaxLoads == 2

\* the names callers ask the registry for
LookupNames == {Str_mtf, Str_bwt, Str_wololooo, Str_half}

InitReg ==
    /\ plugins_root \in {"unset", "set"}
    /\ plugins_dir \in SeqsUpTo(Candidates, MaxDirEntries)
    /\ ALL_COMPRESSORS = Builtins
    /\ LOADED_PLUGINS = <<>>
    /\ loads = 0
    /\ held = None
    /\ access = "none"
    /\ PipeIdle
    /\ CodecIdle
    /\ ParseIdle
    /\ RestIdle

\* plugins::load_plugins
LoadPlugins ==
    /\ loads < MaxLoads
    /\ LET r == load_plugins(plugins_root, plugins_dir, LOADED_PLUGINS,
                             ALL_COMPRESSORS)
       IN /\ LOADED_PLUGINS' = r.table
          /\ ALL_COMPRESSORS' = r.registry
    /\ loads' = loads + 1
    /\ UNCHANGED <<plugins_root, plugins_dir, held, access,
                   pipeVars, codecVars, parseVars, restVars>>

\* plugins::unload_plugins
UnloadPlugins ==
    /\ LOADED_PLUGINS' = <<>>
    /\ UNCHANGED <<plugins_root, plugins_dir, ALL_COMPRESSORS, loads, held,
                   access, pipeVars, codecVars, parseVars, restVars>>

\* pipeline construction: a caller resolves a name and keeps the entry
Lookup ==
    /\ \E s \in LookupNames :
          held' = get_specific_compressor_from_name(ALL_COMPRESSORS, s)
    /\ access' = "none"
    /\ UNCHANGED <<plugins_root, plugins_dir, ALL_COMPRESSORS, LOADED_PLUGINS,
                   loads, pipeVars, codecVars, parseVars, restVars>>

\* RegisteredCompressor::{drive,revert}_mutation on the entry the caller holds
CallHeld ==
    /\ held.some
    /\ access' = TableAccess(LOADED_PLUGINS, held.value.mutator)
    /\ UNCHANGED <<plugins_root, plugins_dir, ALL_COMPRESSORS, LOADED_PLUGINS,
                   loads, held, pipeVars, codecVars, parseVars, restVars>>

NextReg ==
    \/ LoadPlugins
    \/ UnloadPlugins
    \/ Lookup
    \/ CallHeld

SpecReg == InitReg /\ [][NextReg]_vars

\* ------------------------------------------------------ registry properties

\* the files of the directory that are loadable libraries with all four exports
Conforming(files) ==
    {i \in 1..Len(files) :
        /\ files[i].ext \in LibraryExts
        /\ files[i].loadable
        /\ RequiredExports \subseteq files[i].exports}

\* the elements of an increasing enumeration of a finite set of numbers
RECURSIVE Ascending(_)
Ascending(S) ==
    IF S = {} THEN <<>>
    ELSE LET m == CHOOSE x \in S : \A y \in S : x <= y
         IN <<m>> \o Ascending(S \ {m})

\* C11: registry name uniqueness: no two registry entries have the same name,
\* whatever load_plugins calls were made and whatever names the plugins carry.
C11_RegistryNamesUnique ==
    \A i, j \in 1..Len(ALL_COMPRESSORS) :
        ALL_COMPRESSORS[i].name = ALL_COMPRESSORS[j].name => i = j

\* C12: plugin index validity: every FFI-backed registry entry (and so every FFI
\* mutator a caller gets from the registry) has a plugin_index that refers to
\* an existing record of the plugin table, also after unload_plugins.
C12_PluginIndexValid ==
    /\ \A i \in 1..Len(ALL_COMPRESSORS) :
          ALL_COMPRESSORS[i].mutator.tag = "Ffi" =>
              ALL_COMPRESSORS[i].mutator.plugin_index < Len(LOADED_PLUGINS)
    /\ access # "out of bounds"

\* C13: plugin validation: a load_plugins call (with the plugins root set) adds
\* to the plugin table exactly the directory's conforming libraries, in
\* directory order, and registers each of them; a library lacking one of the
\* four exports gets no table record and no registry entry.
C13_PluginValidation ==
    [][ (loads' = loads + 1 /\ plugins_root = "set") =>
          LET n_old == Len(LOADED_PLUGINS)
              added == SubSeq(LOADED_PLUGINS', n_old + 1, Len(LOADED_PLUGINS'))
              reg_added == SubSeq(ALL_COMPRESSORS', Len(ALL_COMPRESSORS) + 1,
                                  Len(ALL_COMPRESSORS'))
              good == Conforming(plugins_dir)
          IN /\ [k \in 1..Len(added) |-> added[k].loaded_from] = Ascending(good)
             /\ \A k \in 1..Len(added) :
                   added[k].api.short_name = plugins_dir[added[k].loaded_from].short_name
             /\ \A k \in 1..Len(added) :
                   \E e \in 1..Len(reg_added) :
                      /\ reg_added[e].mutator = FfiMutator(n_old + k - 1)
                      /\ reg_added[e].name = added[k].api.short_name
             /\ \A e \in 1..Len(reg_added) :
                   /\ reg_added[e].mutator.tag = "Ffi"
                   /\ reg_added[e].mutator.plugin_index < Len(LOADED_PLUGINS')
                   /\ LOADED_PLUGINS'[reg_added[e].mutator.plugin_index + 1].loaded_from
                         \in good
      ]_vars

C13_Witness ==
    /\ plugins_root = "set"
    /\ plugins_dir = <<NoRevertLibrary, SamplePlugin>>
    /\ loads = 1
    /\ LOADED_PLUGINS = <<Plugin(2, [short_name |-> Str_wololooo])>>
    /\ ALL_COMPRESSORS = Builtins \o <<new_ffi(FfiMutator(0), Str_wololooo)>>

\* ------------------------------------------- pipeline descriptions
\* (cli/pipeline.rs build_pipeline, algorithms/pipeline.rs try_from_bytes)

\* the UTF-8 encoding of the characters that occur in the descriptions
Ascii ==
    "a" :> 97 @@ "b" :> 98 @@ "c" :> 99 @@ "d" :> 100 @@ "e" :> 101 @@
    "f" :> 102 @@ "h" :> 104 @@ "i" :> 105 @@ "l" :> 108 @@ "m" :> 109 @@
    "o" :> 111 @@ "p" :> 112 @@ "r" :> 114 @@ "s" :> 115 @@ "t" :> 116 @@
    "w" :> 119 @@ "z" :> 122 @@ "_" :> 95 @@ " " :> 32 @@ "\t" :> 9 @@
    "-" :> 45 @@ ">" :> 62 @@ "," :> 44 @@ "\n" :> 10

\* str::as_bytes
as_bytes(string) == [k \in 1..Len(string) |-> Ascii[string[k]]]

\* the character a one-byte code stands for ("?" for one not listed in Ascii)
CharOf(b) ==
    IF \E c \in DOMAIN Ascii : Ascii[c] = b
    THEN CHOOSE c \in DOMAIN Ascii : Ascii[c] = b
    ELSE "?"

\* first byte value that is not a one-byte UTF-8 sequence
Utf8Continuation == 128

\* str::from_utf8, for streams whose bytes are ASCII or 0xFF (0xFF occurs in
\* no UTF-8 sequence)
from_utf8(bytes) ==
    IF \A k \in 1..Len(bytes) : bytes[k] < Utf8Continuation
    THEN [ok |-> TRUE, str |-> [k \in 1..Len(bytes) |-> CharOf(bytes[k])]]
    ELSE [ok |-> FALSE, str |-> <<>>]

\* char::is_whitespace, among the characters of Ascii
WhiteSpace == {" ", "\t", "\n"}

\* mutant of trim: the part is taken as it stands
trim_nothing(string) == string

RECURSIVE trim_start(_)
trim_start(string) ==
    IF string # <<>> /\ Head(string) \in WhiteSpace
    THEN trim_start(Tail(string))
    ELSE string

RECURSIVE trim_end(_)
trim_end(string) ==
    IF string # <<>> /\ string[Len(string)] \in WhiteSpace
    THEN trim_end(SubSeq(string, 1, Len(string) - 1))
    ELSE string

\* str::trim
trim(string) == trim_end(trim_start(string))

\* str::split("->"): the parts between the leftmost non-overlapping matches,
\* scanning from position i (1-based) with the current part starting at start
RECURSIVE SplitFrom(_, _, _)
SplitFrom(string, start, i) ==
    IF i + 1 > Len(string)
    THEN << SubSeq(string, start, Len(string)) >>
    ELSE IF string[i] = "-" /\ string[i + 1] = ">"
    THEN << SubSeq(string, start, i - 1) >> \o SplitFrom(string, i + 2, i + 2)
    ELSE SplitFrom(string, start, i + 1)

\* string.split("->").map(|s| s.trim()).collect()
split_parts(string) ==
    LET raw == SplitFrom(string, 1, 1)
    IN [k \in 1..Len(raw) |-> trim(raw[k])]

\* what a construction gives its caller: a pipeline, Option::None or a panic
SomePipeline(p) == [tag |-> "some", pipeline |-> p]
NoPipeline == [tag |-> "none", pipeline |-> <<>>]
PanicNoPipeline == [tag |-> "panic", pipeline |-> <<>>]

\* mutant of UnknownAlgorithm: the names resolved so far are returned
UnknownAlgorithmKeepsPrefix(p) == SomePipeline(p)

\* build_pipeline, Inline: the else branch of the look-up (panic!)
UnknownAlgorithm(p) == PanicNoPipeline

\* build_pipeline, Inline: the loop over the parts from position i on
RECURSIVE InlineLoop(_, _, _, _)
InlineLoop(registry, parts, i, p) ==
    IF i > Len(parts) THEN SomePipeline(p)
    ELSE LET comp == get_specific_compressor_from_name(registry, parts[i])
         IN IF comp.some
            THEN InlineLoop(registry, parts, i + 1, Append(p, comp.value))
            ELSE UnknownAlgorithm(p)

\* build_pipeline(PipelineSelection::Inline(string))
build_pipeline_inline(registry, string) ==
    InlineLoop(registry, split_parts(string), 1, <<>>)

END_OF_PIPELINE == 0
END_OF_ALGORITHM_NAME == 44

\* mutant of Exhausted: the end of the stream ends the description
ExhaustedReturnsPipeline(p) == SomePipeline(p)

\* try_from_bytes: the loop ran off the end of the stream
Exhausted(p) == NoPipeline

\* try_from_bytes: the while loop, index and start 0-based as in the source
RECURSIVE TryFromBytesLoop(_, _, _, _, _)
TryFromBytesLoop(registry, bytes, start, index, p) ==
    IF ~(index < Len(bytes)) THEN Exhausted(p)
    ELSE LET c == bytes[index + 1]
             name == from_utf8(Slice(bytes, start, index))
             algo == get_specific_compressor_from_name(registry, name.str)
         IN IF c = END_OF_ALGORITHM_NAME
            THEN IF ~name.ok THEN NoPipeline
                 ELSE IF ~algo.some THEN NoPipeline
                 ELSE TryFromBytesLoop(registry, bytes, index + 1, index + 1,
                                       Append(p, algo.value.mutator))
            ELSE IF c = END_OF_PIPELINE
            THEN IF ~name.ok THEN NoPipeline
                 ELSE IF ~algo.some THEN NoPipeline
                 ELSE SomePipeline(Append(p, algo.value.mutator))
            ELSE TryFromBytesLoop(registry, bytes, start, index + 1, p)

\* CompressionPipeline::try_from_bytes
try_from_bytes(registry, bytes) == TryFromBytesLoop(registry, bytes, 0, 0, <<>>)

\* the mutator a stage of a pipeline stands for: the text form pushes the
\* registry entry, the binary form the entry's mutator
StageMutator(stage) ==
    IF "mutator" \in DOMAIN stage THEN stage.mutator ELSE stage

Mutators(p) == [k \in 1..Len(p) |-> StageMutator(p[k])]

\* ------------------------------- descriptions as inputs of the two parsers

\* most names in one description
MaxNames == 2
\* longest byte stream that is not written from a list of names
MaxRawLen == 3

Str_zz == <<"z", "z">>

\* the names descriptions are written from: registered ones, one that is only
\* registered when the sample plugin is loaded, an unregistered and an empty one
NamePool == {Str_mtf, Str_bwt, Str_wololooo, Str_zz, <<>>}

\* white space put before the first name, before and after each "->" and
\* after the last name
Paddings ==
    { [lead |-> <<>>, before |-> <<>>, after |-> <<>>, trail |-> <<>>],
      [lead |-> <<>>, before |-> <<" ">>, after |-> <<" ">>, trail |-> <<>>],
      [lead |-> <<"\t">>, before |-> <<" ", " ">>, after |-> <<" ", "\t">>,
       trail |-> <<" ", "\n">>] }

RECURSIVE JoinWith(_, _)
JoinWith(names, sep) ==
    IF names = <<>> THEN <<>>
    ELSE IF Len(names) = 1 THEN names[1]
    ELSE names[1] \o sep \o JoinWith(Tail(names), sep)

\* the text form "a -> b -> ..." of a list of names
TextForm(names, pad) ==
    pad.lead \o JoinWith(names, pad.before \o <<"-", ">">> \o pad.after)
             \o pad.trail

\* the binary form "a,b,...\0" of a list of names, with or without its NUL
BinaryForm(names, terminated) ==
    as_bytes(JoinWith(names, <<",">>))
        \o (IF terminated THEN <<END_OF_PIPELINE>> ELSE <<>>)

\* bytes of streams that are not written from names: NUL, ',', 'z', 0xFF
RawBytes == {0, 44, 122, 255}

\* the directories whose loading gives the registries descriptions are parsed in
StartupDirs == {<<>>, <<SamplePlugin>>, <<SamplePlugin, MtfNamedPlugin>>}

InitParse ==
    /\ plugins_root = "set"
    /\ plugins_dir \in StartupDirs
    /\ LET r == load_plugins("set", plugins_dir, <<>>, Builtins)
       IN /\ ALL_COMPRESSORS = r.registry
          /\ LOADED_PLUGINS = r.table
    /\ loads = 1
    /\ held = None
    /\ access = "none"
    /\ \/ \E names \in SeqsUpTo(NamePool, MaxNames), pad \in Paddings,
             terminated \in BOOLEAN :
             /\ d_names = names
             /\ d_text = TextForm(names, pad)
             /\ d_bytes = BinaryForm(names, terminated)
       \/ \E raw \in SeqsUpTo(RawBytes, MaxRawLen) :
             /\ d_names = <<>>
             /\ d_text = <<>>
             /\ d_bytes = raw
    /\ r_text = Unset
    /\ r_bin = Unset
    /\ driven = None
    /\ PipeIdle
    /\ CodecIdle
    /\ RestIdle

\* cli::encode with an inline description: build_pipeline, then drive_mutation
EncodeInline ==
    /\ r_text' = build_pipeline_inline(ALL_COMPRESSORS, d_text)
    /\ driven' = IF r_text'.tag = "some" THEN Some(r_text'.pipeline) ELSE None
    /\ UNCHANGED <<d_names, d_text, d_bytes, r_bin, regVars, pipeVars, codecVars, restVars>>

\* cli::encode with a description file: try_from_bytes(..).expect(..), then
\* drive_mutation
EncodeFromFile ==
    /\ r_bin' = try_from_bytes(ALL_COMPRESSORS, d_bytes)
    /\ driven' = IF r_bin'.tag = "some" THEN Some(r_bin'.pipeline) ELSE None
    /\ UNCHANGED <<d_names, d_text, d_bytes, r_text, regVars, pipeVars, codecVars, restVars>>

NextParse ==
    \/ EncodeInline
    \/ EncodeFromFile

SpecParse == InitParse /\ [][NextParse]_vars

\* ---------------------------------------------------- description properties

Registered(name) == get_specific_compressor_from_name(ALL_COMPRESSORS, name).some

\* C14: binary description termination: try_from_bytes returns no pipeline for
\* a byte stream that contains no NUL byte, whatever names it contains.
C14_BinaryNeedsNul ==
    (r_bin # Unset /\ \A k \in 1..Len(d_bytes) : d_bytes[k] # END_OF_PIPELINE) =>
        r_bin = NoPipeline

C14_Witness ==
    /\ d_bytes = as_bytes(Str_mtf \o <<",">> \o Str_bwt)
    /\ r_bin = NoPipeline

\* C15: text/binary parser equivalence: for a non-empty list of registered
\* names, the text form (with any of the paddings around names and "->") and
\* the binary form "a,b,...\0" both give a pipeline, with the same stages: the
\* mutators registered under the names, in order.
C15_ParserEquivalence ==
    ( /\ d_names # <<>>
      /\ \A k \in 1..Len(d_names) : Registered(d_names[k])
      /\ d_bytes = BinaryForm(d_names, TRUE)
      /\ r_text # Unset
      /\ r_bin # Unset ) =>
        /\ r_text.tag = "some"
        /\ r_bin.tag = "some"
        /\ Mutators(r_text.pipeline) = Mutators(r_bin.pipeline)
        /\ Len(r_bin.pipeline) = Len(d_names)
        /\ \A k \in 1..Len(d_names) : r_text.pipeline[k].name = d_names[k]

C15_Witness ==
    /\ d_names = <<Str_bwt, Str_wololooo>>
    /\ d_text = <<"\t">> \o Str_bwt \o <<" ", " ", "-", ">", " ", "\t">>
                  \o Str_wololooo \o <<" ", "\n">>
    /\ r_text.tag = "some"
    /\ r_bin = SomePipeline(<<[tag |-> "Dyn", fns |-> "bwt"], FfiMutator(0)>>)
    /\ Mutators(r_text.pipeline) = r_bin.pipeline

\* C16: empty text description: building from "" succeeds and gives a pipeline
\* with zero stages.
C16_EmptyTextDescription ==
    (d_text = <<>> /\ r_text # Unset) => r_text = SomePipeline(<<>>)

\* C17: unknown name is a non-partial failure: when some name of the list is
\* not registered, neither format returns a pipeline (no prefix either) and
\* drive_mutation is never reached.
C17_UnknownNameFailsWhole ==
    (\E k \in 1..Len(d_names) : ~Registered(d_names[k])) =>
        /\ r_text \in {Unset, PanicNoPipeline}
        /\ r_bin \in {Unset, NoPipeline}
        /\ driven = None

C17_Witness ==
    /\ d_names = <<Str_mtf, Str_zz>>
    /\ r_text = PanicNoPipeline
    /\ r_bin = NoPipeline
    /\ driven = None

\* ------------------------------------------------- algorithms/bwt.rs

\* order of two byte strings as suffixes: lexicographic, a proper prefix first
LexLess(a, b) ==
    \E k \in 1..(Min(Len(a), Len(b)) + 1) :
        /\ \A m \in 1..(k - 1) : a[m] = b[m]
        /\ IF k > Len(a) THEN k <= Len(b)
           ELSE k <= Len(b) /\ a[k] < b[k]

\* the suffix of text that starts at position i (1-based)
Suffix(text, i) == SubSeq(text, i, Len(text))

\* number of suffixes of text that sort before the suffix at position i
RankOf(text, i) ==
    Cardinality({j \in 1..Len(text) : LexLess(Suffix(text, j), Suffix(text, i))})

\* the suffix array: position r holds the start of the suffix of rank r - 1
SuffixArray(text) ==
    [r \in 1..Len(text) |->
        CHOOSE i \in 1..Len(text) : RankOf(text, i) = r - 1]

\* libsais BwtConstruction::for_text(data)...run(): the byte before the empty
\* suffix, then the byte before every suffix but the whole text, in suffix
\* order; primary_index is one more than the rank of the whole text
libsais_bwt(text) ==
    IF text = <<>> THEN [bwt |-> <<>>, primary_index |-> 0]
    ELSE LET sa == SuffixArray(text)
             rows == SelectSeq(sa, LAMBDA i : i # 1)
         IN [bwt |-> <<text[Len(text)]>> \o
                     [k \in 1..Len(rows) |-> text[rows[k] - 1]],
             primary_index |-> RankOf(text, 1) + 1]

\* u32::to_le_bytes
u32_to_le_bytes(v) ==
    << v % 256, (v \div 256) % 256, (v \div 65536) % 256,
       (v \div 16777216) % 256 >>

\* u32::from_le_bytes as usize, kept as its two 16-bit halves (the value can
\* exceed the integers of the model checker)
u32_from_le_bytes(b) == [lo |-> b[1] + 256 * b[2], hi |-> b[3] + 256 * b[4]]

\* bwt_encode
bwt_encode(d, b) ==
    LET built == libsais_bwt(d)
    IN Ok(u32_to_le_bytes(built.primary_index) \o built.bwt)

\* the last column with the end marker (-1, smallest) put back at the row the
\* primary index names
WithEndMarker(bwt, primary) ==
    SubSeq(bwt, 1, primary) \o <<-1>> \o SubSeq(bwt, primary + 1, Len(bwt))

\* the row of the first column that row `row` of the last column maps to
LF(column, row) ==
    1 + Cardinality({k \in 1..Len(column) : column[k] < column[row]})
      + Cardinality({k \in 1..(row - 1) : column[k] = column[row]})

\* the inverse walk: k more bytes, filled right to left
RECURSIVE UnbwtWalk(_, _, _, _)
UnbwtWalk(column, row, k, acc) ==
    IF k = 0 THEN acc
    ELSE UnbwtWalk(column, LF(column, row), k - 1, <<column[row]>> \o acc)

\* libsais unbwt on from_parts(bwt, primary_index): an error for an index
\* outside 1..n; the text for a transform libsais_bwt can produce; for other
\* input (from_parts is unsafe, "or this is UB") any n bytes
libsais_unbwt(bwt, primary) ==
    LET n == Len(bwt)
        text == UnbwtWalk(WithEndMarker(bwt, primary), 1, n, <<>>)
        isText == \A k \in 1..n : text[k] # -1
    IN IF primary < 1 \/ primary > n THEN {[ok |-> FALSE, text |-> [k \in 1..n |-> 0]]}
       ELSE IF isText /\ libsais_bwt(text) = [bwt |-> bwt, primary_index |-> primary]
       THEN {[ok |-> TRUE, text |-> text]}
       ELSE {[ok |-> TRUE, text |-> t] :
                t \in [1..n -> {bwt[k] : k \in 1..n}]}

\* mutant of InvalidPrimaryIndex: an index equal to the length passes
InvalidPrimaryIndexAbove(primary, n) == primary.hi > 0 \/ primary.lo > n

\* bwt_decode: primary_index >= bwt_payload.len()
InvalidPrimaryIndex(primary, n) == primary.hi > 0 \/ primary.lo >= n

\* bwt_decode: the results the call can return
bwt_decode(d, b) ==
    IF Len(d) < 4 THEN {Ok(d)}
    ELSE LET primary_index == u32_from_le_bytes(SubSeq(d, 1, 4))
             bwt_payload == SubSeq(d, 5, Len(d))
         IN IF bwt_payload = <<>> THEN {Ok(<<>>)}
            ELSE IF InvalidPrimaryIndex(primary_index, Len(bwt_payload))
            THEN {Err(b, "Invalid primary index")}
            ELSE {IF r.ok THEN Ok(r.text) ELSE Err(r.text, "libsais unbwt failed") :
                     r \in libsais_unbwt(bwt_payload, primary_index.lo)}

\* ------------------------------------------- bwt.rs as a state machine

\* longest input of bwt_encode / bwt_decode drawn from BwtBytes
MaxBwtLen == 5

BwtBytes == {0, 1, 65, 255}

\* b"banana"
Banana == <<98, 97, 110, 97, 110, 97>>

InitBwt ==
    /\ t_x \in SeqsUpTo(BwtBytes, MaxBwtLen) \cup {Banana}
    /\ t_entry \in {<<>>, <<7>>}
    /\ t_enc = Ok(<<>>)
    /\ t_dec = Ok(<<>>)
    /\ t_pc = "init"
    /\ PipeIdle
    /\ RegIdle
    /\ ParseIdle
    /\ RestIdle

\* Bwt.drive_mutation(t_x, buf)
BwtEncode ==
    /\ t_pc = "init"
    /\ t_enc' = bwt_encode(t_x, t_entry)
    /\ t_pc' = "encoded"
    /\ UNCHANGED <<t_x, t_entry, t_dec, pipeVars, regVars, parseVars, restVars>>

\* Bwt.revert_mutation on the output of the drive call
BwtDecode ==
    /\ t_pc = "encoded"
    /\ t_dec' \in bwt_decode(t_enc.buf, t_entry)
    /\ t_pc' = "decoded"
    /\ UNCHANGED <<t_x, t_entry, t_enc, pipeVars, regVars, parseVars, restVars>>

\* Bwt.revert_mutation on t_x itself
BwtDecodeRaw ==
    /\ t_pc = "init"
    /\ t_dec' \in bwt_decode(t_x, t_entry)
    /\ t_pc' = "reverted"
    /\ UNCHANGED <<t_x, t_entry, t_enc, pipeVars, regVars, parseVars, restVars>>

NextBwt ==
    \/ BwtEncode
    \/ BwtDecode
    \/ BwtDecodeRaw

SpecBwt == InitBwt /\ [][NextBwt]_vars

\* ------------------------------------------------------------ BWT properties

\* C18: BWT decode validation: for an input of at least 4 bytes, bwt_decode
\* succeeds with empty output when nothing follows the 4-byte header, whatever
\* the index, and fails when the payload is non-empty and the little-endian
\* index of the header is >= the payload length.
C18_BwtDecodeValidation ==
    (t_pc = "reverted" /\ Len(t_x) >= 4) =>
        LET n == Len(t_x) - 4
            beyond == \/ t_x[3] # 0
                      \/ t_x[4] # 0
                      \/ t_x[1] + 256 * t_x[2] >= n
        IN /\ n = 0 => (t_dec.ok /\ t_dec.buf = <<>>)
           /\ (n > 0 /\ beyond) => ~t_dec.ok

C18_Witness ==
    /\ t_pc = "reverted"
    /\ t_x = <<255, 255, 255, 255, 65>>
    /\ ~t_dec.ok

\* C19: BWT short-input passthrough: bwt_encode of an input of length n < 4
\* emits the input unchanged; for n >= 4 it emits the 4-byte little-endian
\* primary index followed by exactly n bytes.
C19_BwtShortPassthrough ==
    t_pc = "encoded" =>
        /\ t_enc.ok
        /\ IF Len(t_x) < 4 THEN t_enc.buf = t_x
           ELSE /\ Len(t_enc.buf) = 4 + Len(t_x)
                /\ SubSeq(t_enc.buf, 1, 4) =
                       u32_to_le_bytes(libsais_bwt(t_x).primary_index)

\* ------------------------------------------------ algorithms/arcode.rs
\* The arcode crate's coder is not part of the repository.  Its calls are
\* modelled by what they write to the BitWriter: the bits of one
\* encoder.encode call are any bit string (the model's state decides them),
\* finish_encode writes one bit and then at least one bit of the other value,
\* pad_to_byte fills the last byte with zero bits.

\* longest input of arith_encode / arith_decode, and most bytes a decode yields
MaxArithLen == 1
\* most bits one encoder.encode call writes
MaxCodeBits == 1
\* most pending bits finish_encode finds
MaxPendingBits == 1

ArithBytes == {0, 255}

\* model.eof() of Model::builder().num_symbols(256).eof(EndAddOne)
EofSymbol == 256

\* the symbols encode_data_with_model hands to encoder.encode, in order
SymbolsOf(d) == [k \in 1..Len(d) |-> d[k]] \o <<EofSymbol>>

\* the bits the encoder.encode calls for these symbols can write, together
CodeBits(symbols) == SeqsUpTo({0, 1}, Len(symbols) * MaxCodeBits)

\* the bits finish_encode can write: pending_bit_count += 1, then emit(bit)
FinishBits ==
    {<<bit>> \o [k \in 1..(pending + 1) |-> 1 - bit] :
        bit \in {0, 1}, pending \in 0..MaxPendingBits}

\* BitWriter::pad_to_byte
PadToByte(bits) == bits \o [k \in 1..((8 - (Len(bits) % 8)) % 8) |-> 0]

\* the bytes of a whole number of bytes of bits, most significant bit first
PackMsb(bits) ==
    [k \in 1..(Len(bits) \div 8) |->
        128 * bits[8 * k - 7] + 64 * bits[8 * k - 6] + 32 * bits[8 * k - 5]
        + 16 * bits[8 * k - 4] + 8 * bits[8 * k - 3] + 4 * bits[8 * k - 2]
        + 2 * bits[8 * k - 1] + bits[8 * k]]

\* encode_data_with_model: what the Vec behind the BitWriter can hold on return
encode_data_with_model(d) ==
    {PackMsb(PadToByte(code \o fin)) :
        code \in CodeBits(SymbolsOf(d)), fin \in FinishBits}

\* arith_encode: the results the call can return
arith_encode(d, b) == {Ok(out) : out \in encode_data_with_model(d)}

\* decode_data_with_model: buf.clear(), then the decoder either fails after
\* some symbols were pushed or finishes; the EOF marker is popped
decode_data_with_model(d) ==
    {Ok(out) : out \in SeqsUpTo(ArithBytes, MaxArithLen)}
    \cup {Err(out, "arithmetic decoder error from arcode crate") :
             out \in SeqsUpTo(ArithBytes, MaxArithLen)}

\* mutant of is_empty: the input is handed to the decoder whatever its length
is_empty_skipped(d) == FALSE

\* data.is_empty()
is_empty(d) == d = <<>>

\* arith_decode: the results the call can return
arith_decode(d, b) ==
    IF is_empty(d)
    THEN {Err(b, "arithmetic decoder error: data was empty")}
    ELSE decode_data_with_model(d)

\* ---------------------------------------- arcode.rs as a state machine

InitArith ==
    /\ t_x \in SeqsUpTo(ArithBytes, MaxArithLen)
    /\ t_entry \in {<<>>, <<7>>}
    /\ t_enc = Ok(<<>>)
    /\ t_dec = Ok(<<>>)
    /\ t_pc = "init"
    /\ PipeIdle
    /\ RegIdle
    /\ ParseIdle
    /\ RestIdle

\* ArithmeticCoding.drive_mutation(t_x, buf)
ArithEncode ==
    /\ t_pc = "init"
    /\ t_enc' \in arith_encode(t_x, t_entry)
    /\ t_pc' = "encoded"
    /\ UNCHANGED <<t_x, t_entry, t_dec, pipeVars, regVars, parseVars, restVars>>

\* ArithmeticCoding.revert_mutation(t_x, buf), a second call on the same input
ArithDecode ==
    /\ t_pc = "encoded"
    /\ t_dec' \in arith_decode(t_x, t_entry)
    /\ t_pc' = "reverted"
    /\ UNCHANGED <<t_x, t_entry, t_enc, pipeVars, regVars, parseVars, restVars>>

NextArith ==
    \/ ArithEncode
    \/ ArithDecode

SpecArith == InitArith /\ [][NextArith]_vars

\* C20: arithmetic coding of empty input: arith_decode of a zero-length input
\* fails, while arith_encode of a zero-length input succeeds with a non-empty
\* output, an encoding of the EOF symbol alone.
C20_ArithEmptyInput ==
    t_x = <<>> =>
        /\ t_pc \in {"encoded", "reverted"} =>
              /\ t_enc.ok
              /\ t_enc.buf # <<>>
              /\ t_enc.buf \in {PackMsb(PadToByte(code \o fin)) :
                                   code \in CodeBits(<<EofSymbol>>),
                                   fin \in FinishBits}
        /\ t_pc = "reverted" => ~t_dec.ok

C20_Witness ==
    /\ t_x = <<>>
    /\ t_pc = "reverted"
    /\ t_enc.ok
    /\ t_enc.buf = <<160>>
    /\ ~t_dec.ok

\* ------------------------------------------------------------ bsc_decode

\* longest input handed to bsc_decode
MaxBscLen == 20
\* largest size field written into a frame header
MaxBlockSize == 2

\* size_of::<i32>()
SizeOfI32 == 4

\* i32::to_le_bytes
i32_to_le_bytes(v) ==
    LET low == v % 16777216
        top == ((v - low) \div 16777216) % 256
    IN << low % 256, (low \div 256) % 256, (low \div 65536) % 256, top >>

\* i32::from_le_bytes (two's complement: a top byte of 128 or more is negative)
i32_from_le_bytes(b) ==
    b[1] + 256 * b[2] + 65536 * b[3]
      + 16777216 * (IF b[4] >= 128 THEN b[4] - 256 ELSE b[4])

\* read_i32: the next four bytes as an i32 and the slice after them, or
\* "input too short"
read_i32(d) ==
    IF Len(d) < SizeOfI32
    THEN [ok |-> FALSE, val |-> 0, rest |-> d]
    ELSE [ok |-> TRUE, val |-> i32_from_le_bytes(SubSeq(d, 1, SizeOfI32)),
          rest |-> SubSeq(d, SizeOfI32 + 1, Len(d))]

\* mutant of CorruptedFrame: compressed_size > block_size is let through
CorruptedFrameNoOrder(block_size, compressed_size) ==
    block_size <= 0 \/ compressed_size <= 0

\* the test of line 95
CorruptedFrame(block_size, compressed_size) ==
    block_size <= 0 \/ compressed_size <= 0 \/ compressed_size > block_size

\* mutant of AfterHeader: the header bytes are not counted
AfterHeaderUncounted(remaining) == remaining

\* remaining_size -= (2 * size_of::<i32>()) as i64
AfterHeader(remaining) == remaining - 2 * SizeOfI32

\* bytes libbsc_decompress_memory_block_c may leave in the block
DecompressedBytes == {0, 65}

RECURSIVE SeqsOfLen(_, _)
\* all sequences over S of length exactly n
SeqsOfLen(S, n) ==
    IF n = 0 THEN { <<>> }
    ELSE { <<x>> \o t : x \in S, t \in SeqsOfLen(S, n - 1) }

\* libbsc_decompress_memory_block_c(buffer, compressed_size, block_size): the
\* library either returns block_size, leaving block_size bytes in the buffer,
\* or returns another value
libbsc_decompress_memory_block_c(compressed, block_size) ==
    { [size |-> block_size, block |-> blk] :
         blk \in SeqsOfLen(DecompressedBytes, block_size) }
    \cup { [size |-> -1, block |-> compressed] }

\* the Result of an early return
BscErr(msg) == [ok |-> FALSE, err |-> msg]
BscOk == [ok |-> TRUE, err |-> ""]

\* one pass through the body of `while !data.is_empty()` (lines 93-125); the
\* outcomes differ in what the decompression primitive returned
BscLoopBody(d, remaining, output) ==
    LET h1 == read_i32(d)
        h2 == read_i32(h1.rest)
        block_size == h1.val
        compressed_size == h2.val
        payload == SubSeq(h2.rest, 1, compressed_size)
        rest == SubSeq(h2.rest, compressed_size + 1, Len(h2.rest))
        counted == AfterHeader(remaining) - compressed_size
        Stop(msg, rem, at) ==
            [res |-> BscErr(msg), data |-> at, remaining |-> rem,
             output |-> output, frame |-> <<>>]
    IN IF ~h1.ok THEN { Stop("input too short", remaining, d) }
       ELSE IF ~h2.ok THEN { Stop("input too short", remaining, h1.rest) }
       ELSE IF CorruptedFrame(block_size, compressed_size)
       THEN { Stop("corrupted input", remaining, h2.rest) }
       ELSE IF Len(h2.rest) < compressed_size
       THEN { Stop("input too short", AfterHeader(remaining), h2.rest) }
       ELSE IF compressed_size < block_size
       THEN { IF dec.size # block_size
              THEN Stop("corrupted input", counted, rest)
              ELSE [res |-> Pending, data |-> rest, remaining |-> counted,
                    output |-> output \o dec.block,
                    frame |-> << [block_size |-> block_size,
                                  compressed_size |-> compressed_size,
                                  payload |-> payload, called |-> TRUE,
                                  out |-> dec.block] >>] :
              dec \in libbsc_decompress_memory_block_c(payload, block_size) }
       ELSE { [res |-> Pending, data |-> rest, remaining |-> counted,
               output |-> output \o SubSeq(payload, 1, block_size),
               frame |-> << [block_size |-> block_size,
                             compressed_size |-> compressed_size,
                             payload |-> payload, called |-> FALSE,
                             out |-> SubSeq(payload, 1, block_size)] >>] }

\* a frame: the two header fields and compressed_size payload bytes
Frame(block_size, compressed_size) ==
    i32_to_le_bytes(block_size) \o i32_to_le_bytes(compressed_size)
      \o [k \in 1..compressed_size |-> 65 + (k % 2)]

\* values a header field takes in the inputs
SizeValues == (-1)..MaxBlockSize

Frames == { Frame(b, c) : b \in SizeValues, c \in SizeValues }

\* the prefixes of a byte sequence
Prefixes(s) == { SubSeq(s, 1, k) : k \in 0..Len(s) }

\* the inputs: one or two frames, well-formed or not, cut anywhere
BscInputs ==
    { x \in UNION { Prefixes(f \o g) : f \in Frames, g \in Frames } :
         Len(x) <= MaxBscLen }

InitBsc ==
    /\ b_input \in BscInputs
    /\ b_data = b_input
    /\ remaining_size = 0
    /\ b_output \in { <<>>, <<7>> }
    /\ b_pc = "entry"
    /\ b_res = Pending
    /\ b_frames = <<>>
    /\ PipeIdle
    /\ CodecIdle
    /\ RegIdle
    /\ ParseIdle
    /\ TraceIdle
    /\ Rle3Idle
    /\ LockIdle
    /\ FfiIdle

bscOthers == <<pipeVars, codecVars, regVars, parseVars, traceVars, rle3Vars, lockVars, ffiVars>>

\* lines 84-90: clear the output; an empty input is an empty output
BscDecodeEnter ==
    /\ b_pc = "entry"
    /\ b_output' = <<>>
    /\ IF b_data = <<>>
       THEN /\ b_res' = BscOk
            /\ b_pc' = "done"
            /\ UNCHANGED remaining_size
       ELSE /\ remaining_size' = Len(b_data)
            /\ b_pc' = "loop"
            /\ UNCHANGED b_res
    /\ UNCHANGED <<b_input, b_data, b_frames, bscOthers>>

\* lines 92-126: one iteration of the loop
BscDecodeFrame ==
    /\ b_pc = "loop"
    /\ b_data # <<>>
    /\ \E r \in BscLoopBody(b_data, remaining_size, b_output) :
          /\ b_data' = r.data
          /\ remaining_size' = r.remaining
          /\ b_output' = r.output
          /\ b_frames' = b_frames \o r.frame
          /\ b_res' = r.res
          /\ b_pc' = IF r.res = Pending THEN "loop" ELSE "done"
    /\ UNCHANGED <<b_input, bscOthers>>

\* lines 128-134: the loop is left
BscDecodeExit ==
    /\ b_pc = "loop"
    /\ b_data = <<>>
    /\ b_res' = IF remaining_size # 0
                THEN BscErr("internal error: remaining size after processing is not zero")
                ELSE BscOk
    /\ b_pc' = "done"
    /\ UNCHANGED <<b_input, b_data, remaining_size, b_output, b_frames, bscOthers>>

NextBsc ==
    \/ BscDecodeEnter
    \/ BscDecodeFrame
    \/ BscDecodeExit

SpecBsc == InitBsc /\ [][NextBsc]_vars

\* the loop is scheduled until the function returns
SpecBscFair == SpecBsc /\ WF_vars(NextBsc)

RECURSIVE Malformed(_)
\* some frame of the stream has a short header, a size field out of range or
\* fewer payload bytes than compressed_size
Malformed(bytes) ==
    IF bytes = <<>> THEN FALSE
    ELSE IF Len(bytes) < 8 THEN TRUE
    ELSE LET original_size == i32_from_le_bytes(SubSeq(bytes, 1, 4))
             compressed_size == i32_from_le_bytes(SubSeq(bytes, 5, 8))
         IN \/ original_size <= 0
            \/ compressed_size <= 0
            \/ compressed_size > original_size
            \/ Len(bytes) - 8 < compressed_size
            \/ Malformed(SubSeq(bytes, 9 + compressed_size, Len(bytes)))

\* C21: block-framed decode validation: bsc_decode fails on every input with
\* a frame whose original_size <= 0, compressed_size <= 0, compressed_size >
\* original_size, whose header is short or whose payload is short; a frame
\* with compressed_size = original_size is copied literally, without a call of
\* the decompression primitive.
C21_BscDecodeValidation ==
    /\ (b_pc = "done" /\ Malformed(b_input)) => ~b_res.ok
    /\ \A k \in 1..Len(b_frames) :
          b_frames[k].compressed_size = b_frames[k].block_size =>
              /\ ~b_frames[k].called
              /\ b_frames[k].out = b_frames[k].payload

C21_Witness ==
    /\ b_pc = "done"
    /\ b_input = Frame(1, 1) \o Frame(1, 2)
    /\ Len(b_frames) = 1
    /\ ~b_frames[1].called
    /\ b_output = <<66>>
    /\ b_res = BscErr("corrupted input")

\* C28: bsc_decode size accounting: at the start of every loop iteration and
\* at loop exit remaining_size is the number of input bytes not yet consumed,
\* the "remaining size after processing is not zero" failure never occurs,
\* every completed iteration has consumed at least 9 bytes, and the call
\* returns.
C28_BscSizeAccounting ==
    /\ [](/\ b_pc = "loop" => remaining_size = Len(b_data)
          /\ (b_pc = "done" /\ b_res.ok) => remaining_size = 0
          /\ b_res # BscErr("internal error: remaining size after processing is not zero")
          /\ b_pc \in {"loop", "done"} =>
                Len(b_input) - Len(b_data) >= 9 * Len(b_frames))
    /\ <>(b_pc = "done")

C28_Witness ==
    /\ b_pc = "done"
    /\ b_res = BscOk
    /\ Len(b_frames) = 2
    /\ b_frames[1].called
    /\ remaining_size = 0
    /\ Len(b_input) = 19

\* ------------------------------------------- RegisteredCompressor's calls

\* revert_mutation as compiled with if_tracing! (lines 65-74): both match arms
\* call drive_mutation
TracedRevert(kind, d, b) == drive_mutation(kind, d, b)

\* RegisteredCompressor::{drive,revert}_mutation with the if_tracing! branch
RegisteredTraced(op, kind, d, b) ==
    IF op = "drive" THEN drive_mutation(kind, d, b) ELSE TracedRevert(kind, d, b)

\* RegisteredCompressor::{drive,revert}_mutation with the if_not_tracing!
\* branch (lines 59-61, 75-77): the wrapped function of the same name
RegisteredPlain(op, kind, d, b) ==
    IF op = "drive" THEN drive_mutation(kind, d, b) ELSE revert_mutation(kind, d, b)

\* the mutators of Kinds that the registry holds (a built-in and the sample
\* plugin)
RegisteredKinds == {"mtf", "wololooo"}

InitTrace ==
    /\ rc_kind \in RegisteredKinds
    /\ rc_op \in {"drive", "revert"}
    /\ rc_data \in SeqsUpTo(PipeBytes, MaxDataLen)
    /\ rc_buf \in EntryBufs
    /\ rc_traced = None
    /\ rc_plain = None
    /\ PipeIdle
    /\ CodecIdle
    /\ RegIdle
    /\ ParseIdle
    /\ BscIdle
    /\ Rle3Idle
    /\ LockIdle
    /\ FfiIdle

traceOthers == <<pipeVars, codecVars, regVars, parseVars, bscVars, rle3Vars, lockVars, ffiVars>>

\* the call in a build with tracing
CallTraced ==
    /\ ~rc_traced.some
    /\ rc_traced' = Some(RegisteredTraced(rc_op, rc_kind, rc_data, rc_buf))
    /\ UNCHANGED <<rc_kind, rc_op, rc_data, rc_buf, rc_plain, traceOthers>>

\* the same call in a build without tracing
CallPlain ==
    /\ ~rc_plain.some
    /\ rc_plain' = Some(RegisteredPlain(rc_op, rc_kind, rc_data, rc_buf))
    /\ UNCHANGED <<rc_kind, rc_op, rc_data, rc_buf, rc_traced, traceOthers>>

NextTrace ==
    \/ CallTraced
    \/ CallPlain

SpecTrace == InitTrace /\ [][NextTrace]_vars

\* C23: observability does not change behaviour: drive_mutation and
\* revert_mutation of a RegisteredCompressor return the same result and output
\* bytes with and without tracing compiled in, and revert_mutation applies the
\* wrapped mutator's revert function in both builds.
C23_TracingSameBehaviour ==
    /\ (rc_traced.some /\ rc_plain.some) => rc_traced = rc_plain
    /\ (rc_traced.some /\ rc_op = "revert") =>
          rc_traced.value = revert_mutation(rc_kind, rc_data, rc_buf)
    /\ (rc_plain.some /\ rc_op = "revert") =>
          rc_plain.value = revert_mutation(rc_kind, rc_data, rc_buf)

\* ------------------------------------------------ the chunks Rle selects

\* the pairs (L, k): the L bytes at offset p occur k times in a row from p
RepeatingPatterns(d, p) ==
    { c \in UNION { { [L |-> l, k |-> n] :
                         n \in 2..Min(MaxRepeats, (Len(d) - p) \div l) } :
                    l \in 1..Min(MaxChunkLen, Len(d) - p) } :
        \A j \in 1..(c.k - 1) :
            Slice(d, p + j * c.L, p + (j + 1) * c.L) = Slice(d, p, p + c.L) }

\* raw_size / encoded_size of c is below that of e: compared as fractions
LowerRatio(c, e) == c.L * c.k * (2 + e.L) < e.L * e.k * (2 + c.L)
SameRatio(c, e) == c.L * c.k * (2 + e.L) = e.L * e.k * (2 + c.L)

\* the patterns of the greatest ratio and, among them, of the least length
BestPatterns(d, p) ==
    LET patterns == RepeatingPatterns(d, p)
    IN { c \in patterns :
           \A e \in patterns :
               LowerRatio(e, c) \/ (SameRatio(e, c) /\ e.L >= c.L) }

RECURSIVE SelectedChunks(_, _)
\* the stream of (L, R, pattern) chunks selected from offset p on
SelectedChunks(d, p) ==
    IF p >= Len(d) THEN <<>>
    ELSE LET best == { c \in BestPatterns(d, p) : c.L * c.k > 2 + c.L }
         IN IF best # {}
            THEN LET c == CHOOSE c \in best : TRUE
                 IN << c.L, c.k - 1 >> \o Slice(d, p, p + c.L)
                      \o SelectedChunks(d, p + c.L * c.k)
            ELSE LET n == Min(MaxChunkLen, Len(d) - p)
                 IN << n, 0 >> \o Slice(d, p, p + n) \o SelectedChunks(d, p + n)

\* C26: RLE chunk selection: at each position the encoder emits the repeating
\* pattern (L in 1..255, k in 2..256 repetitions) of the greatest
\* L*k / (2+L), the smallest L among equal maxima, when that ratio exceeds 1,
\* and otherwise one literal chunk with R = 0 holding the next
\* min(255, remaining) bytes; b"ABABABABAB" encodes to [2, 4, 65, 66].
C26_RleChunkSelection ==
    t_pc = "encoded" =>
        /\ t_enc.buf = SelectedChunks(t_x, 0)
        /\ t_x = ABABABABAB => t_enc.buf = <<2, 4, 65, 66>>

C26_Witness ==
    /\ t_pc = "encoded"
    /\ t_x = ABABABABAB
    /\ t_enc.buf = <<2, 4, 65, 66>>

\* ----------------------------------------------------------------- rle2.rs

\* longest input handed to Rle2
MaxRle2Len == 5

\* the longest string of one chunk (string_length is a u8)
MaxStringLen == 255
\* the most repetitions of one chunk (repetitions_minus_one is a u8)
MaxUseCount == 256
\* inputs and streams shorter than this take the early return
ShortData == 4

\* RleChunk2
RleChunk2(string_length, repetitions_minus_one, string) ==
    [string_length |-> string_length,
     repetitions_minus_one |-> repetitions_minus_one,
     string |-> string]

\* RleChunk2::get_size
get_size(chunk) == 2 + Len(chunk.string)

RECURSIVE TotalSize(_)
\* chunks.iter().fold(0, |acc, chunk| acc + chunk.get_size())
TotalSize(chunks) ==
    IF chunks = <<>> THEN 0 ELSE get_size(Head(chunks)) + TotalSize(Tail(chunks))

RECURSIVE RunLength(_, _, _)
\* while start + count < data.len() && data[start + count] == current
RunLength(d, start, count) ==
    IF start + count < Len(d) /\ d[start + count + 1] = d[start + 1]
    THEN RunLength(d, start, count + 1)
    ELSE count

RECURSIVE RunChunks(_, _)
\* while remaining > 0: one chunk per min(remaining, 256) repetitions
RunChunks(current, remaining) ==
    IF remaining > 0
    THEN LET use_count == Min(remaining, MaxUseCount)
         IN << RleChunk2(1, (use_count - 1) % 256, <<current>>) >>
               \o RunChunks(current, remaining - use_count)
    ELSE <<>>

RECURSIVE SingleByteChunks(_, _)
\* lines 98-117: the runs of equal bytes, from offset start
SingleByteChunks(d, start) ==
    IF start < Len(d)
    THEN LET count == RunLength(d, start, 0)
         IN RunChunks(d[start + 1], count) \o SingleByteChunks(d, start + count)
    ELSE <<>>

\* try_join_chunks
try_join_chunks(first, second) ==
    LET combined_len == Len(first.string) + Len(second.string)
        raw_string == Repeat(first.string, first.repetitions_minus_one + 1)
                        \o second.string
        individual_size == get_size(first) + get_size(second)
    IN IF /\ first.repetitions_minus_one = 0
          /\ second.repetitions_minus_one = 0
          /\ combined_len <= MaxStringLen
          /\ 2 + combined_len < individual_size
       THEN Some(RleChunk2(combined_len % 256, 0, first.string \o second.string))
       ELSE IF /\ first.string = second.string
               /\ first.repetitions_minus_one + second.repetitions_minus_one
                    < MaxStringLen
       THEN Some(RleChunk2(first.string_length,
                           (first.repetitions_minus_one
                              + second.repetitions_minus_one + 1) % 256,
                           first.string))
       ELSE IF /\ first.repetitions_minus_one > 0
               /\ second.repetitions_minus_one = 0
               /\ Len(raw_string) <= MaxStringLen
               /\ 2 + Len(raw_string) < individual_size
       THEN Some(RleChunk2(Len(raw_string) % 256, 0, raw_string))
       ELSE None

RECURSIVE JoinFrom(_, _, _)
\* the inner loop of aggregate_chunks: join chunks[j], chunks[j+1], ... onto
\* current while try_join_chunks allows (j is 0-based)
JoinFrom(current, chunks, j) ==
    IF j < Len(chunks) /\ try_join_chunks(current, chunks[j + 1]).some
    THEN JoinFrom(try_join_chunks(current, chunks[j + 1]).value, chunks, j + 1)
    ELSE [current |-> current, j |-> j]

RECURSIVE AggregateFrom(_, _)
\* the outer loop of aggregate_chunks, from 0-based index i
AggregateFrom(chunks, i) ==
    IF i < Len(chunks)
    THEN LET r == JoinFrom(chunks[i + 1], chunks, i + 1)
         IN << r.current >> \o AggregateFrom(chunks, r.j)
    ELSE <<>>

\* aggregate_chunks
aggregate_chunks(chunks) == AggregateFrom(chunks, 0)

RECURSIVE ShrinkLoop(_)
\* lines 119-130: aggregate while the total size gets smaller
ShrinkLoop(chunks) ==
    LET candidate_chunks == aggregate_chunks(chunks)
    IN IF TotalSize(candidate_chunks) >= TotalSize(chunks)
       THEN chunks
       ELSE ShrinkLoop(candidate_chunks)

RECURSIVE SerializeChunks(_)
\* lines 132-138
SerializeChunks(chunks) ==
    IF chunks = <<>> THEN <<>>
    ELSE << Head(chunks).string_length, Head(chunks).repetitions_minus_one >>
           \o Head(chunks).string \o SerializeChunks(Tail(chunks))

\* Rle2::rle_encode (Rle2::compress_bytes)
Rle2_rle_encode(d) ==
    IF Len(d) < ShortData THEN d
    ELSE SerializeChunks(ShrinkLoop(SingleByteChunks(d, 0)))

RECURSIVE Rle2_dechunker(_, _)
\* dechunker of Rle2::rle_decode, from 0-based cursor position: read_exact
\* fails when the stream ends inside a chunk
Rle2_dechunker(d, position) ==
    IF position >= Len(d) THEN [ok |-> TRUE, chunks |-> <<>>]
    ELSE IF position + 2 > Len(d) \/ position + 2 + d[position + 1] > Len(d)
    THEN [ok |-> FALSE, chunks |-> <<>>]
    ELSE LET len == d[position + 1]
             tail == Rle2_dechunker(d, position + 2 + len)
         IN [ok |-> tail.ok,
             chunks |-> << RleChunk2(len, d[position + 2],
                                     Slice(d, position + 2, position + 2 + len)) >>
                          \o tail.chunks]

\* Rle2::rle_decode (Rle2::decompress_bytes)
Rle2_rle_decode(d) ==
    IF Len(d) < ShortData THEN Ok(<<>>)
    ELSE LET read == Rle2_dechunker(d, 0)
         IN IF ~read.ok THEN Err(<<>>, "failed to fill whole buffer")
            ELSE Ok(ReadChunks(read.chunks, 1))

\* bytes the model feeds to Rle2
Rle2Bytes == {65, 66}

InitRle2 ==
    /\ t_x \in SeqsUpTo(Rle2Bytes, MaxRle2Len)
    /\ t_entry = <<>>
    /\ t_enc = Ok(<<>>)
    /\ t_dec = Ok(<<>>)
    /\ t_pc = "init"
    /\ PipeIdle
    /\ RegIdle
    /\ ParseIdle
    /\ RestIdle

\* Rle2.compress_bytes(x)
Rle2Compress ==
    /\ t_pc = "init"
    /\ t_enc' = Ok(Rle2_rle_encode(t_x))
    /\ t_pc' = "encoded"
    /\ UNCHANGED <<t_x, t_entry, t_dec, pipeVars, regVars, parseVars, restVars>>

\* Rle2.decompress_bytes(compressed)
Rle2Decompress ==
    /\ t_pc = "encoded"
    /\ t_dec' = Rle2_rle_decode(t_enc.buf)
    /\ t_pc' = "decoded"
    /\ UNCHANGED <<t_x, t_entry, t_enc, pipeVars, regVars, parseVars, restVars>>

NextRle2 ==
    \/ Rle2Compress
    \/ Rle2Decompress

SpecRle2 == InitRle2 /\ [][NextRle2]_vars

\* C25: Rle2 round trip: for every byte sequence x of any length,
\* decompress_bytes(compress_bytes(x)) succeeds and equals x.
C25_Rle2RoundTrip ==
    t_pc = "decoded" => (t_dec.ok /\ t_dec.buf = t_x)

\* ----------------------------------------------------------------- rle3.rs

\* longest input handed to rle3::encode
MaxRle3Len == 5

\* the longest chunk and the greatest count of one chunk header (both u8)
MaxRle3Chunk == 255

\* a usize after wrapping arithmetic: a value v below 0 stands for 2^64 + v, so
\* every wrapped value is above every value that did not wrap
USizeGreater(a, b) ==
    \/ a < 0 /\ b >= 0
    \/ (a < 0 <=> b < 0) /\ a > b

RECURSIVE CountRun(_, _, _, _)
\* the while loop of line 104, entered with `count`
CountRun(input, i, chunk_len, count) ==
    IF /\ i + chunk_len * (count + 1) <= Len(input)
       /\ Slice(input, i, i + chunk_len)
            = Slice(input, i + chunk_len * count, i + chunk_len * (count + 1))
    THEN CountRun(input, i, chunk_len, count + 1)
    ELSE count

\* the left operand of the subtraction of line 108
SavingOperand(chunk_len, count) == chunk_len * (count - 1)

RECURSIVE DetectLoop(_, _, _, _, _, _)
\* `for chunk_len in 1..=max_possible_chunk` from chunk_len on. With overflow
\* checks the subtraction of line 108 panics when its operand is below 2;
\* without them it wraps.
DetectLoop(build, input, i, chunk_len, best, evals) ==
    IF chunk_len > Min(Len(input) - i, MaxRle3Chunk)
    THEN [panic |-> FALSE, best |-> best, evals |-> evals]
    ELSE LET count == CountRun(input, i, chunk_len, 1)
             operand == SavingOperand(chunk_len, count)
             saving == operand - 2
             seen == Append(evals, [chunk_len |-> chunk_len, count |-> count])
         IN IF count <= 1
            THEN DetectLoop(build, input, i, chunk_len + 1, best, evals)
            ELSE IF operand < 2 /\ build = "debug"
            THEN [panic |-> TRUE, best |-> best, evals |-> seen]
            ELSE IF USizeGreater(saving, 0)
                    /\ (best.some => USizeGreater(saving, best.value.saving))
            THEN DetectLoop(build, input, i, chunk_len + 1,
                            Some([chunk_len |-> chunk_len, count |-> count,
                                  saving |-> saving]), seen)
            ELSE DetectLoop(build, input, i, chunk_len + 1, best, seen)

\* detect_best_run
detect_best_run(build, input, i) == DetectLoop(build, input, i, 1, None, <<>>)

RECURSIVE flush_literal(_, _)
\* flush_literal: the literal bytes from 0-based offset start on, in chunks of
\* up to 255 bytes with count 1
flush_literal(literal, start) ==
    IF start < Len(literal)
    THEN LET end == Min(start + MaxRle3Chunk, Len(literal))
         IN << (end - start) % 256, 1 >> \o Slice(literal, start, end)
              \o flush_literal(literal, end)
    ELSE <<>>

RECURSIVE RunChunks3(_, _, _)
\* lines 49-57: the run, in chunks of up to 255 repetitions
RunChunks3(chunk, chunk_len, remaining) ==
    IF remaining > 0
    THEN LET cur_count == Min(remaining, MaxRle3Chunk)
         IN << chunk_len % 256, cur_count % 256 >> \o chunk
              \o RunChunks3(chunk, chunk_len, remaining - cur_count)
    ELSE <<>>

\* bytes the model feeds to rle3::encode
Rle3Bytes == {65, 66}

InitRle3 ==
    /\ e_build \in {"debug", "release"}
    /\ e_input \in SeqsUpTo(Rle3Bytes, MaxRle3Len)
    /\ e_i = 0
    /\ e_output = <<>>
    /\ e_literal = <<>>
    /\ e_pc = "loop"
    /\ e_evals = <<>>
    /\ e_run = None
    /\ PipeIdle
    /\ CodecIdle
    /\ RegIdle
    /\ ParseIdle
    /\ BscIdle
    /\ TraceIdle
    /\ LockIdle
    /\ FfiIdle

rle3Others == <<pipeVars, codecVars, regVars, parseVars, bscVars, traceVars, lockVars, ffiVars>>

\* lines 41-68: one iteration of `while i < input.len()`
Rle3EncodeStep ==
    /\ e_pc = "loop"
    /\ e_i < Len(e_input)
    /\ LET r == detect_best_run(e_build, e_input, e_i)
       IN /\ e_evals' = r.evals
          /\ e_run' = r.best
          /\ IF r.panic
             THEN /\ e_pc' = "panic"
                  /\ UNCHANGED <<e_i, e_output, e_literal>>
             ELSE IF r.best.some
             THEN LET chunk_len == r.best.value.chunk_len
                      count == r.best.value.count
                  IN /\ e_output' = e_output \o flush_literal(e_literal, 0)
                           \o RunChunks3(Slice(e_input, e_i, e_i + chunk_len),
                                         chunk_len, count)
                     /\ e_literal' = <<>>
                     /\ e_i' = e_i + chunk_len * count
                     /\ UNCHANGED e_pc
             ELSE LET pushed == Append(e_literal, e_input[e_i + 1])
                  IN /\ e_i' = e_i + 1
                     /\ IF Len(pushed) = MaxRle3Chunk
                        THEN /\ e_output' = e_output \o flush_literal(pushed, 0)
                             /\ e_literal' = <<>>
                        ELSE /\ e_literal' = pushed
                             /\ UNCHANGED e_output
                     /\ UNCHANGED e_pc
    /\ UNCHANGED <<e_build, e_input, rle3Others>>

\* lines 70-73: the loop is left
Rle3EncodeFinish ==
    /\ e_pc = "loop"
    /\ e_i >= Len(e_input)
    /\ e_output' = e_output \o flush_literal(e_literal, 0)
    /\ e_literal' = <<>>
    /\ e_pc' = "done"
    /\ UNCHANGED <<e_build, e_input, e_i, e_evals, e_run, rle3Others>>

NextRle3 ==
    \/ Rle3EncodeStep
    \/ Rle3EncodeFinish

SpecRle3 == InitRle3 /\ [][NextRle3]_vars

\* C30: Rle3 saving arithmetic: whenever detect_best_run evaluates
\* saving = chunk_len * (count - 1) - 2 (count > 1), the subtraction does not
\* underflow (chunk_len * (count - 1) >= 2), and a run is returned only when
\* encoding it takes fewer bytes than the run holds.
C30_Rle3SavingNoUnderflow ==
    /\ \A k \in 1..Len(e_evals) :
          e_evals[k].chunk_len * (e_evals[k].count - 1) >= 2
    /\ e_run.some =>
          2 + e_run.value.chunk_len < e_run.value.chunk_len * e_run.value.count

\* ---------------------------------------- plugins.rs, thread by thread

\* mutant of ScanGuardAfterPush: the guard of line 148 is kept
ScanGuardKept(t) == t

\* drop(lock) (line 150): the owner of the plugin table's mutex afterwards
ScanGuardAfterPush(t) == Unlocked

\* the plugin_index values of the registry's FFI entries
FfiIndices(registry) ==
    { registry[k].mutator.plugin_index :
         k \in { j \in 1..Len(registry) : registry[j].mutator.tag = "Ffi" } }

\* the directory of the threaded runs: one file is skipped, one is pushed
LockDir == <<NoRevertLibrary, SamplePlugin>>

InitLock ==
    /\ th_pc = [t \in Threads |-> "idle"]
    /\ th_arg = [t \in Threads |-> 0]
    /\ registry_mutex = Unlocked
    /\ plugins_mutex = Unlocked
    /\ plugins_root = "set"
    /\ plugins_dir = LockDir
    /\ ALL_COMPRESSORS = Builtins
    /\ LOADED_PLUGINS = <<>>
    /\ loads = 0
    /\ held = None
    /\ access = "none"
    /\ PipeIdle
    /\ CodecIdle
    /\ ParseIdle
    /\ BscIdle
    /\ TraceIdle
    /\ Rle3Idle
    /\ FfiIdle

lockOthers == <<pipeVars, codecVars, parseVars, bscVars, traceVars, rle3Vars, ffiVars>>

\* load_plugins, lines 103-124: a thread enters and opens the directory
LoadEnter(t) ==
    /\ th_pc[t] = "idle"
    /\ plugins_root = "set"
    /\ loads < MaxLoads
    /\ loads' = loads + 1
    /\ th_pc' = [th_pc EXCEPT ![t] = "scan"]
    /\ th_arg' = [th_arg EXCEPT ![t] = 1]
    /\ UNCHANGED <<registry_mutex, plugins_mutex, plugins_root, plugins_dir,
                   ALL_COMPRESSORS, LOADED_PLUGINS, held, access, lockOthers>>

\* load_plugins, lines 125-146: a file that is not pushed takes no lock
LoadScanSkip(t) ==
    /\ th_pc[t] = "scan"
    /\ th_arg[t] <= Len(plugins_dir)
    /\ ScanEntry(LOADED_PLUGINS, plugins_dir, th_arg[t]) = LOADED_PLUGINS
    /\ th_arg' = [th_arg EXCEPT ![t] = @ + 1]
    /\ UNCHANGED <<th_pc, registry_mutex, plugins_mutex, regVars, lockOthers>>

\* load_plugins, line 148: LOADED_PLUGINS.lock()
LoadScanLock(t) ==
    /\ th_pc[t] = "scan"
    /\ th_arg[t] <= Len(plugins_dir)
    /\ ScanEntry(LOADED_PLUGINS, plugins_dir, th_arg[t]) # LOADED_PLUGINS
    /\ plugins_mutex = Unlocked
    /\ plugins_mutex' = t
    /\ th_pc' = [th_pc EXCEPT ![t] = "push"]
    /\ UNCHANGED <<th_arg, registry_mutex, regVars, lockOthers>>

\* load_plugins, lines 149-150: push, drop(lock)
LoadScanPush(t) ==
    /\ th_pc[t] = "push"
    /\ LOADED_PLUGINS' = ScanEntry(LOADED_PLUGINS, plugins_dir, th_arg[t])
    /\ plugins_mutex' = ScanGuardAfterPush(t)
    /\ th_arg' = [th_arg EXCEPT ![t] = @ + 1]
    /\ th_pc' = [th_pc EXCEPT ![t] = "scan"]
    /\ UNCHANGED <<registry_mutex, plugins_root, plugins_dir, ALL_COMPRESSORS,
                   loads, held, access, lockOthers>>

\* load_plugins, line 163: the directory is exhausted
LoadScanEnd(t) ==
    /\ th_pc[t] = "scan"
    /\ th_arg[t] > Len(plugins_dir)
    /\ th_pc' = [th_pc EXCEPT ![t] = "registry"]
    /\ UNCHANGED <<th_arg, registry_mutex, plugins_mutex, regVars, lockOthers>>

\* load_plugins, line 166: ALL_COMPRESSORS.lock()
LoadRegistryLock(t) ==
    /\ th_pc[t] = "registry"
    /\ registry_mutex = Unlocked
    /\ registry_mutex' = t
    /\ th_pc' = [th_pc EXCEPT ![t] = "table"]
    /\ UNCHANGED <<th_arg, plugins_mutex, regVars, lockOthers>>

\* load_plugins, line 167: LOADED_PLUGINS.lock(), the registry's guard alive
LoadTableLock(t) ==
    /\ th_pc[t] = "table"
    /\ plugins_mutex = Unlocked
    /\ plugins_mutex' = t
    /\ th_pc' = [th_pc EXCEPT ![t] = "registering"]
    /\ UNCHANGED <<th_arg, registry_mutex, regVars, lockOthers>>

\* load_plugins, lines 167-178: the pushes; both guards are dropped
LoadRegister(t) ==
    /\ th_pc[t] = "registering"
    /\ ALL_COMPRESSORS' = RegisterLoop(ALL_COMPRESSORS, LOADED_PLUGINS)
    /\ plugins_mutex' = Unlocked
    /\ registry_mutex' = Unlocked
    /\ th_pc' = [th_pc EXCEPT ![t] = "idle"]
    /\ UNCHANGED <<th_arg, plugins_root, plugins_dir, LOADED_PLUGINS, loads,
                   held, access, lockOthers>>

\* unload_plugins, line 227
UnloadLock(t) ==
    /\ th_pc[t] = "idle"
    /\ plugins_mutex = Unlocked
    /\ plugins_mutex' = t
    /\ th_pc' = [th_pc EXCEPT ![t] = "clearing"]
    /\ UNCHANGED <<th_arg, registry_mutex, regVars, lockOthers>>

\* unload_plugins, lines 228-229
UnloadClear(t) ==
    /\ th_pc[t] = "clearing"
    /\ LOADED_PLUGINS' = <<>>
    /\ plugins_mutex' = Unlocked
    /\ th_pc' = [th_pc EXCEPT ![t] = "idle"]
    /\ UNCHANGED <<th_arg, registry_mutex, plugins_root, plugins_dir,
                   ALL_COMPRESSORS, loads, held, access, lockOthers>>

\* FfiMutator::{drive,revert}_mutation, lines 188 and 207: the guard made by
\* LOADED_PLUGINS.lock() lives as long as `api`, which borrows from it; an
\* index past the table panics and the unwinding drops the guard.  A thread
\* that waits for its first mutex holds nothing, so it is shown as idle.
FfiLock(t) ==
    /\ th_pc[t] = "idle"
    /\ plugins_mutex = Unlocked
    /\ \E index \in FfiIndices(ALL_COMPRESSORS) :
          /\ th_arg' = [th_arg EXCEPT ![t] = index]
          /\ access' = TableAccess(LOADED_PLUGINS, FfiMutator(index))
          /\ IF index < Len(LOADED_PLUGINS)
             THEN /\ plugins_mutex' = t
                  /\ th_pc' = [th_pc EXCEPT ![t] = "plugin code"]
             ELSE /\ plugins_mutex' = Unlocked
                  /\ th_pc' = [th_pc EXCEPT ![t] = "panicked"]
    /\ UNCHANGED <<registry_mutex, plugins_root, plugins_dir, ALL_COMPRESSORS,
                   LOADED_PLUGINS, loads, held, lockOthers>>

\* FfiMutator::{drive,revert}_mutation, lines 193-204 and 212-223: the plugin's
\* function returns and the method ends
FfiReturn(t) ==
    /\ th_pc[t] = "plugin code"
    /\ plugins_mutex' = Unlocked
    /\ th_pc' = [th_pc EXCEPT ![t] = "idle"]
    /\ UNCHANGED <<th_arg, registry_mutex, regVars, lockOthers>>

\* cli::pipeline, ListCompressors, line 48
ListCompressorsLock(t) ==
    /\ th_pc[t] = "idle"
    /\ registry_mutex = Unlocked
    /\ registry_mutex' = t
    /\ th_pc' = [th_pc EXCEPT ![t] = "printing compressors"]
    /\ UNCHANGED <<th_arg, plugins_mutex, regVars, lockOthers>>

\* cli::pipeline, ListCompressors, lines 48-54
ListCompressorsEnd(t) ==
    /\ th_pc[t] = "printing compressors"
    /\ registry_mutex' = Unlocked
    /\ th_pc' = [th_pc EXCEPT ![t] = "idle"]
    /\ UNCHANGED <<th_arg, plugins_mutex, regVars, lockOthers>>

\* cli::pipeline, ListPlugins, line 57
ListPluginsLock(t) ==
    /\ th_pc[t] = "idle"
    /\ plugins_mutex = Unlocked
    /\ plugins_mutex' = t
    /\ th_pc' = [th_pc EXCEPT ![t] = "printing plugins"]
    /\ UNCHANGED <<th_arg, registry_mutex, regVars, lockOthers>>

\* cli::pipeline, ListPlugins, lines 58-70
ListPluginsEnd(t) ==
    /\ th_pc[t] = "printing plugins"
    /\ plugins_mutex' = Unlocked
    /\ th_pc' = [th_pc EXCEPT ![t] = "idle"]
    /\ UNCHANGED <<th_arg, registry_mutex, regVars, lockOthers>>

NextLock ==
    \E t \in Threads :
       \/ LoadEnter(t)
       \/ LoadScanSkip(t)
       \/ LoadScanLock(t)
       \/ LoadScanPush(t)
       \/ LoadScanEnd(t)
       \/ LoadRegistryLock(t)
       \/ LoadTableLock(t)
       \/ LoadRegister(t)
       \/ UnloadLock(t)
       \/ UnloadClear(t)
       \/ FfiLock(t)
       \/ FfiReturn(t)
       \/ ListCompressorsLock(t)
       \/ ListCompressorsEnd(t)
       \/ ListPluginsLock(t)
       \/ ListPluginsEnd(t)

SpecLock == InitLock /\ [][NextLock]_vars

\* the mutexes a thread holds
HeldBy(t) ==
    (IF registry_mutex = t THEN {"ALL_COMPRESSORS"} ELSE {})
      \cup (IF plugins_mutex = t THEN {"LOADED_PLUGINS"} ELSE {})

\* the mutex a thread inside load_plugins acquires next, if any
Wanted(t) ==
    IF th_pc[t] = "registry" THEN {"ALL_COMPRESSORS"}
    ELSE IF th_pc[t] = "table" THEN {"LOADED_PLUGINS"}
    ELSE IF /\ th_pc[t] = "scan"
            /\ th_arg[t] <= Len(plugins_dir)
            /\ ScanEntry(LOADED_PLUGINS, plugins_dir, th_arg[t]) # LOADED_PLUGINS
    THEN {"LOADED_PLUGINS"}
    ELSE {}

\* C22: lock-free hot path: while a pipeline stage executes, FFI-backed
\* mutators' drive_mutation and revert_mutation included, the executing thread
\* has acquired neither the registry lock nor the plugin-table lock.
C22_LockFreeHotPath ==
    \A t \in Threads : th_pc[t] = "plugin code" => HeldBy(t) = {}

\* C29: lock ordering: in every interleaving of load_plugins, unload_plugins,
\* FFI calls and the listing commands no two threads acquire the two mutexes
\* in opposite orders and no thread re-acquires a mutex it holds, so no
\* deadlock state is reachable.
C29_LockOrdering ==
    /\ \A t \in Threads : Wanted(t) \cap HeldBy(t) = {}
    /\ \A t \in Threads :
          ~("LOADED_PLUGINS" \in HeldBy(t) /\ "ALL_COMPRESSORS" \in Wanted(t))
    /\ \A t, u \in Threads :
          ~(/\ t # u
            /\ Wanted(t) # {} /\ Wanted(t) \subseteq HeldBy(u)
            /\ Wanted(u) # {} /\ Wanted(u) \subseteq HeldBy(t))
    /\ (\E t \in Threads : th_pc[t] # "panicked") => ENABLED NextLock

C29_Witness ==
    /\ th_pc[1] = "registering"
    /\ HeldBy(1) = {"ALL_COMPRESSORS", "LOADED_PLUGINS"}
    /\ th_pc[2] = "registry"
    /\ Wanted(2) = {"ALL_COMPRESSORS"}
    /\ Len(LOADED_PLUGINS) = 2

\* ------------------------------ the output buffer across the FFI boundary

\* longest input and largest capacity of the hand-off runs
MaxFfiLen == 2

\* most calls made on one buffer
MaxFfiCalls == 2

\* Vec::new(): no allocation
EmptyVec == [ptr |-> Dangling, len |-> 0, cap |-> 0]

\* the allocation a Vec owns, if it has one
Owned(v) == IF v.cap > 0 THEN {v.ptr} ELSE {}

\* the allocations that have not been freed
Live(heap) == { a \in 1..Len(heap) : heap[a].state = "live" }

\* a Vec is read, written, reallocated or dropped: touching an allocation that
\* was freed is a memory error
Touch(heap, v, what) ==
    IF v.cap > 0 /\ v.ptr \notin Live(heap) THEN {what} ELSE {}

\* drop(Vec): the allocation goes back to the allocator
Free(heap, v) ==
    IF v.cap > 0 /\ v.ptr \in Live(heap)
    THEN [heap EXCEPT ![v.ptr].state = "freed"]
    ELSE heap

\* Vec::clear
VecClear(heap, v) ==
    [heap |-> IF v.cap > 0 THEN [heap EXCEPT ![v.ptr].bytes = <<>>] ELSE heap,
     vec  |-> [v EXCEPT !.len = 0]]

\* Vec::reserve(additional) on a Vec of length 0.  Enough capacity: nothing
\* happens.  No allocation yet: a new one.  Otherwise realloc, which keeps the
\* address or moves the block and frees the old one.  The new capacity is at
\* least what was asked for.
VecReserve(heap, v, additional) ==
    IF v.cap >= additional THEN { [heap |-> heap, vec |-> v] }
    ELSE LET fresh == Len(heap) + 1
             block == [state |-> "live", bytes |-> <<>>]
         IN  { [heap |-> Append(Free(heap, v), block),
                vec  |-> [ptr |-> fresh, len |-> 0, cap |-> c]]
                  : c \in additional..MaxFfiLen }
             \cup
             (IF v.cap > 0
              THEN { [heap |-> heap, vec |-> [v EXCEPT !.cap = c]]
                        : c \in additional..MaxFfiLen }
              ELSE {})

\* the pushes of sample_plugin's drive_mutation: byte ^ 1 for every byte
VecPushAll(heap, v, input) ==
    IF input = <<>> THEN [heap |-> heap, vec |-> v]
    ELSE [heap |-> [heap EXCEPT ![v.ptr].bytes =
                       [k \in 1..Len(input) |-> Xor1(input[k])]],
          vec  |-> [v EXCEPT !.len = Len(input)]]

\* vec.clear(); vec.reserve(data.len())
ClearAndReserve(heap, v, input) ==
    VecReserve(VecClear(heap, v).heap, VecClear(heap, v).vec, Len(input))

\* sample_plugin::drive_mutation (lib.rs:86-93); it returns Ok(()) always
sample_drive_mutation(heap, v, input) ==
    { [heap  |-> VecPushAll(p.heap, p.vec, input).heap,
       vec   |-> VecPushAll(p.heap, p.vec, input).vec,
       inner |-> "Ok"] : p \in ClearAndReserve(heap, v, input) }

\* a mutation that fails: Err(MutateError::Drive(..)) before it touches the
\* Vec, or after clear and reserve
failing_drive_mutation(heap, v, input) ==
    { [heap |-> heap, vec |-> v, inner |-> "Err"] }
      \cup { [heap |-> p.heap, vec |-> p.vec, inner |-> "Err"]
                : p \in ClearAndReserve(heap, v, input) }

\* the mutations behind the exported wrapper
FfiPlugins == {"wololooo", "failing"}

\* the bytes of the inputs
FfiBytes == {0, 65}

FfiInputs == UNION { SeqsOfLen(FfiBytes, n) : n \in 0..MaxFfiLen }

\* the host's buffer before the first call: Vec::new(), or what an earlier
\* stage left in it
FfiBuffers ==
    { [vec |-> EmptyVec, heap |-> <<>>] }
      \cup { [vec  |-> [ptr |-> 1, len |-> Len(b), cap |-> c],
              heap |-> << [state |-> "live", bytes |-> b] >>]
                : b \in FfiInputs, c \in 1..MaxFfiLen }

InitFfi ==
    /\ f_pc = "host"
    /\ f_plugin \in FfiPlugins
    /\ f_data = <<>>
    /\ \E b \in { x \in FfiBuffers : x.vec.len <= x.vec.cap } :
          /\ f_buf = b.vec
          /\ f_heap = b.heap
    /\ f_triple = EmptyVec
    /\ f_vec = EmptyVec
    /\ f_inner = "none"
    /\ f_result = "none"
    /\ f_faults = {}
    /\ f_calls = 0
    /\ PipeIdle
    /\ CodecIdle
    /\ RegIdle
    /\ ParseIdle
    /\ BscIdle
    /\ TraceIdle
    /\ Rle3Idle
    /\ LockIdle

ffiOthers == <<pipeVars, codecVars, regVars, parseVars, bscVars, traceVars,
               rle3Vars, lockVars>>

\* FfiMutator::drive_mutation, lines 189-193: ptr, len and cap are read from
\* buf and the plugin's function is called
FfiCallEnter ==
    /\ f_pc = "host"
    /\ f_calls < MaxFfiCalls
    /\ f_calls' = f_calls + 1
    /\ f_data' \in FfiInputs
    /\ f_triple' = f_buf
    /\ f_pc' = "plugin"
    /\ UNCHANGED <<f_plugin, f_buf, f_vec, f_heap, f_inner, f_result, f_faults,
                   ffiOthers>>

\* stackpack_plugin_drive_mutation, lines 33-36: Vec::from_raw_parts on the
\* caller's triple, then the mutation
PluginMutate ==
    /\ f_pc = "plugin"
    /\ LET vec == f_triple
           outcomes == IF f_plugin = "wololooo"
                       THEN sample_drive_mutation(f_heap, vec, f_data)
                       ELSE failing_drive_mutation(f_heap, vec, f_data)
       IN  IF Touch(f_heap, vec, "use after free") # {}
           THEN /\ f_faults' = f_faults \cup Touch(f_heap, vec, "use after free")
                /\ f_pc' = "undefined behaviour"
                /\ UNCHANGED <<f_vec, f_heap, f_inner>>
           ELSE /\ \E r \in outcomes :
                      /\ f_vec' = r.vec
                      /\ f_heap' = r.heap
                      /\ f_inner' = r.inner
                /\ f_pc' = "matched"
                /\ UNCHANGED f_faults
    /\ UNCHANGED <<f_plugin, f_data, f_buf, f_triple, f_result, f_calls,
                   ffiOthers>>

\* stackpack_plugin_drive_mutation, lines 37-48.  Ok: the Vec's parts are
\* written through the out parameters and the Vec is forgotten.  Err: nothing
\* is written and the Vec is dropped at the end of the block.
PluginReturn ==
    /\ f_pc = "matched"
    /\ IF f_inner = "Ok"
       THEN /\ f_triple' = f_vec
            /\ f_result' = "true"
            /\ UNCHANGED f_heap
       ELSE /\ f_heap' = Free(f_heap, f_vec)
            /\ f_result' = "false"
            /\ UNCHANGED f_triple
    /\ f_vec' = EmptyVec
    /\ f_pc' = "rebuild"
    /\ UNCHANGED <<f_plugin, f_data, f_buf, f_inner, f_faults, f_calls,
                   ffiOthers>>

\* FfiMutator::drive_mutation, lines 195-203: Vec::from_raw_parts on the
\* locals, swap with buf, forget the old Vec, map the flag to a Result
HostRebuild ==
    /\ f_pc = "rebuild"
    /\ f_buf' = f_triple
    /\ f_result' = IF f_result = "true" THEN "Ok" ELSE "Err"
    /\ f_pc' = "host"
    /\ UNCHANGED <<f_plugin, f_data, f_triple, f_vec, f_heap, f_inner,
                   f_faults, f_calls, ffiOthers>>

\* the caller is done with the buffer: drop(buf)
HostDrop ==
    /\ f_pc = "host"
    /\ f_calls > 0
    /\ f_faults' = f_faults \cup Touch(f_heap, f_buf, "double free")
    /\ f_heap' = Free(f_heap, f_buf)
    /\ f_buf' = EmptyVec
    /\ f_pc' = IF Touch(f_heap, f_buf, "double free") # {}
               THEN "undefined behaviour" ELSE "dropped"
    /\ UNCHANGED <<f_plugin, f_data, f_triple, f_vec, f_inner, f_result,
                   f_calls, ffiOthers>>

NextFfi ==
    \/ FfiCallEnter
    \/ PluginMutate
    \/ PluginReturn
    \/ HostRebuild
    \/ HostDrop

SpecFfi == InitFfi /\ [][NextFfi]_vars

====
